---- MODULE Spec2Model ----
(***************************************************************************)
(* Multi-tenant data-access layer of sx_obsidian (sx_db/repositories.py):  *)
(* tenant identity normalisation, the Schema Registry, per-tenant schema   *)
(* provisioning on PostgreSQL, and the two repositories (SQLite with       *)
(* shared tables keyed by source_id, PostgreSQL with one schema per        *)
(* source).                                                                *)
(*                                                                         *)
(* Strings are sequences of one-character strings, so that the regular     *)
(* expressions of the code can be evaluated character by character.        *)
(***************************************************************************)
EXTENDS Integers, Sequences, FiniteSets, TLC

(***************************************************************************)
(* Characters and Python string helpers                                    *)
(***************************************************************************)
LowerSeq == << "a","b","c","d","e","f","g","h","i","j","k","l","m",
               "n","o","p","q","r","s","t","u","v","w","x","y","z" >>
UpperSeq == << "A","B","C","D","E","F","G","H","I","J","K","L","M",
               "N","O","P","Q","R","S","T","U","V","W","X","Y","Z" >>
DigitSeq == << "0","1","2","3","4","5","6","7","8","9" >>

Range(f) == { f[i] : i \in DOMAIN f }

UpperLetters == Range(UpperSeq)
Letters == Range(LowerSeq) \cup UpperLetters
Digits == Range(DigitSeq)

IsLetter(c) == c \in Letters
IsDigit(c) == c \in Digits
IsSpace(c) == c \in {" ", "\t", "\n"}

\* int(c) for a decimal digit c
DigitVal(c) == (CHOOSE i \in DOMAIN DigitSeq : DigitSeq[i] = c) - 1

\* c.lower()
LowerChar(c) ==
    IF c \in UpperLetters
    THEN LowerSeq[CHOOSE i \in DOMAIN UpperSeq : UpperSeq[i] = c]
    ELSE c

\* s.lower()
Lower(s) == [i \in DOMAIN s |-> LowerChar(s[i])]

\* s.strip()
Strip(s) ==
    LET keep == { i \in DOMAIN s : ~IsSpace(s[i]) }
    IN  IF keep = {} THEN << >>
        ELSE LET lo == CHOOSE i \in keep : \A j \in keep : i <= j
                 hi == CHOOSE i \in keep : \A j \in keep : i >= j
             IN  SubSeq(s, lo, hi)

\* the characters of s that satisfy Keep, in order
RECURSIVE FilterChars(_, _)
FilterChars(s, keepSet) ==
    IF s = << >> THEN << >>
    ELSE IF Head(s) \in keepSet
         THEN << Head(s) >> \o FilterChars(Tail(s), keepSet)
         ELSE FilterChars(Tail(s), keepSet)

\* s.replace(a, b) for one-character a and b
ReplaceChar(s, a, b) == [i \in DOMAIN s |-> IF s[i] = a THEN b ELSE s[i]]

\* str(n) for 0 <= n <= 99
IntToStr(n) ==
    IF n < 10 THEN << DigitSeq[n + 1] >>
    ELSE << DigitSeq[(n \div 10) + 1], DigitSeq[(n % 10) + 1] >>

\* Python None where a string is expected
NoneStr == << "<None>" >>
\* Python None where a profile index is expected (valid indexes are >= 1)
NoIndex == 0

\* v bound to a name in Body
With(v, Body(_)) == Body(v)

(***************************************************************************)
(* Identifier safety                                                       *)
(***************************************************************************)
DefaultStr == << "d","e","f","a","u","l","t" >>

\* `v or ""`: None and "" are both falsy
OrEmpty(v) == IF v = NoneStr THEN << >> ELSE v

SourceIdChars == Letters \cup Digits \cup {".", "_", "-"}

\* sanitize_source_id returning the fallback as given when nothing is left
SanitizeRawFallback(v, fallback) ==
    IF FilterChars(Strip(OrEmpty(v)), SourceIdChars) # << >>
    THEN FilterChars(Strip(OrEmpty(v)), SourceIdChars)
    ELSE OrEmpty(fallback)

\* sanitize_source_id(v, fallback)
sanitize_source_id(v, fallback) ==
    LET fb  == IF OrEmpty(fallback) = << >> THEN DefaultStr ELSE fallback
        raw == IF Strip(OrEmpty(v)) # << >> THEN Strip(OrEmpty(v)) ELSE Strip(fb)
        cleaned == FilterChars(raw, SourceIdChars)
    IN  IF cleaned # << >> THEN cleaned ELSE DefaultStr

\* _SAFE_IDENT.match(s): ^[A-Za-z_][A-Za-z0-9_]*$
MatchesSafeIdent(s) ==
    /\ Len(s) >= 1
    /\ IsLetter(s[1]) \/ s[1] = "_"
    /\ \A i \in 2..Len(s) : IsLetter(s[i]) \/ IsDigit(s[i]) \/ s[i] = "_"

\* safe_ident(name): the stripped name, or ValueError
safe_ident(name) ==
    LET s == Strip(OrEmpty(name))
    IN  IF MatchesSafeIdent(s) THEN [ok |-> TRUE, v |-> s]
        ELSE [ok |-> FALSE, v |-> << >>]

\* _extract_trailing_profile_index(value): (?:^|[_-])(?:p)?(\d{1,2})$
ExtractTrailingAccept(n) == IF n >= 1 THEN n ELSE NoIndex

_extract_trailing_profile_index(value) ==
    LET s == Lower(Strip(OrEmpty(value)))
        n == Len(s)
        \* the text before position i ends the group (?:^|[_-])(?:p)?
        Boundary(i) == \/ i = 1
                       \/ s[i-1] \in {"_", "-"}
                       \/ s[i-1] = "p" /\ (i = 2 \/ s[i-2] \in {"_", "-"})
    IN  IF n = 0 THEN NoIndex
        ELSE IF n >= 2 /\ IsDigit(s[n-1]) /\ IsDigit(s[n]) /\ Boundary(n-1)
             THEN ExtractTrailingAccept(10 * DigitVal(s[n-1]) + DigitVal(s[n]))
        ELSE IF IsDigit(s[n]) /\ Boundary(n)
             THEN ExtractTrailingAccept(DigitVal(s[n]))
        ELSE NoIndex

\* _extract_schema_profile_index(schema_name): (?:^|_)p(\d{2})(?:_|$), first match
_extract_schema_profile_index(schema_name) ==
    LET s == Lower(Strip(OrEmpty(schema_name)))
        n == Len(s)
        MatchAt(i) == /\ s[i] = "p"
                      /\ i = 1 \/ s[i-1] = "_"
                      /\ i + 2 <= n
                      /\ IsDigit(s[i+1]) /\ IsDigit(s[i+2])
                      /\ i + 2 = n \/ s[i+3] = "_"
        hits == { i \in 1..n : MatchAt(i) }
    IN  IF hits = {} THEN NoIndex
        ELSE LET i == CHOOSE k \in hits : \A j \in hits : k <= j
                 v == 10 * DigitVal(s[i+1]) + DigitVal(s[i+2])
             IN  IF v >= 1 THEN v ELSE NoIndex

(***************************************************************************)
(* Bounds and the inputs the operations are called with                    *)
(***************************************************************************)
\* datetime.utcnow() is read as a value in 0..MaxNow that never decreases
MaxNow == 1

SxPrefix    == << "s","x" >>
SxP01Prefix == << "s","x","_","p","0","1" >>
\* values of SX_POSTGRES_SCHEMA_PREFIX: the default, and the unified
\* indexed convention named in the comment of _extract_schema_profile_index
Prefixes == { SxPrefix, SxP01Prefix }
\* values of SX_PROFILE_INDEX
ProfileIndexes == { 0, 1, 2 }

SrcA1      == << "a","_","1" >>
SrcA1Dash  == << "a","-","1" >>
SrcA2      == << "a","_","2" >>
SrcA1Alias == << " ","a","_","1","!" >>
\* raw source ids handed to the repositories
RawSourceIds == { SrcA1, SrcA1Dash, SrcA2, SrcA1Alias }
\* raw source ids handed to the item operations
ItemSourceIds == { SrcA1, SrcA2, SrcA1Alias }

IdX == << "x" >>
CapU == << "u" >>
CapV == << "v" >>
\* payloads handed to write_item
Payloads ==
    { [id |-> IdX, caption |-> CapU, bookmarked |-> 0],
      [id |-> << " ","x"," " >>, caption |-> CapV, bookmarked |-> 1],
      [id |-> NoneStr, caption |-> CapU, bookmarked |-> 0],
      [id |-> << >>, caption |-> CapU, bookmarked |-> 0],
      [id |-> << " "," " >>, caption |-> CapV, bookmarked |-> 1] }
\* item ids handed to get_item
ItemIds == { IdX, << "y" >> }

Tiktok == << "t","i","k","t","o","k" >>
PublicSchema == << "p","u","b","l","i","c" >>
SharedSchema == << "s","h","a","r","e","d" >>
UnifiedSchema == << "s","x","_","p","0","2","_","m","a","i","n" >>

\* SX_DEFAULT_SOURCE_ID
DefaultSourceId == DefaultStr

(***************************************************************************)
(* The string operators tabulated over the strings that occur in the       *)
(* model, so that each is evaluated once per string and not once per call  *)
(***************************************************************************)
KnownSourceIds ==
    RawSourceIds \cup { DefaultSourceId }
    \cup { sanitize_source_id(v, DefaultSourceId) : v \in RawSourceIds }
SanitizedTable == [v \in KnownSourceIds |-> sanitize_source_id(v, DefaultSourceId)]

\* f"{prefix}_{sid}".replace(".", "_").replace("-", "_")
CanonicalUnder(prefix, sid) ==
    ReplaceChar(ReplaceChar(prefix \o << "_" >> \o sid, ".", "_"), "-", "_")

KnownSchemaNames ==
    { CanonicalUnder(p, SanitizedTable[v]) : p \in Prefixes, v \in KnownSourceIds }
    \cup { SharedSchema, UnifiedSchema, << >> }
SafeIdentTable == [n \in KnownSchemaNames |-> safe_ident(n)]
SchemaIndexTable == [n \in KnownSchemaNames |-> _extract_schema_profile_index(n)]
TrailingIndexTable ==
    [v \in KnownSourceIds \cup { << >> } \cup { IntToStr(i) : i \in ProfileIndexes } |->
        _extract_trailing_profile_index(v)]

(***************************************************************************)
(* PostgreSQL catalog: tenant schemas and their objects                    *)
(***************************************************************************)
\* columns of CREATE TABLE videos
VideosColumns ==
    { "source_id", "id", "platform", "author_id", "author_unique_id",
      "author_name", "followers", "hearts", "videos_count", "signature",
      "is_private", "caption", "bookmarked", "bookmark_timestamp",
      "video_path", "cover_path", "csv_row_hash", "updated_at" }
\* PRIMARY KEY(source_id, id)
VideosKey == { "source_id", "id" }

EmptySchema ==
    [tables |-> {}, videoCols |-> {}, videoKey |-> {}, fks |-> {},
     indexes |-> {}, rows |-> {}]

DDLSchema == [kind |-> "schema", name |-> "", tbl |-> "", col |-> ""]
DDLTable(t) == [kind |-> "table", name |-> t, tbl |-> t, col |-> ""]
DDLFk(n, t) == [kind |-> "fk", name |-> n, tbl |-> t, col |-> ""]
DDLIndex(n, t, c) == [kind |-> "index", name |-> n, tbl |-> t, col |-> c]

\* the statements of _create_schema_objects, in order
DDLStatements ==
    << DDLSchema,
       DDLTable("videos"),
       DDLTable("user_meta"),
       DDLTable("video_notes"),
       DDLFk("fk_user_meta_videos", "user_meta"),
       DDLFk("fk_video_notes_videos", "video_notes"),
       DDLTable("csv_consolidated_raw"),
       DDLTable("csv_authors_raw"),
       DDLTable("csv_bookmarks_raw"),
       DDLTable("scheduling_artifacts"),
       DDLTable("job_queue"),
       DDLIndex("videos_updated", "videos", "updated_at"),
       DDLIndex("videos_author_uid", "videos", "author_unique_id"),
       DDLIndex("videos_bookmarked", "videos", "bookmarked"),
       DDLIndex("user_meta_status", "user_meta", "status"),
       DDLIndex("user_meta_source_id", "user_meta", "source_id"),
       DDLIndex("user_meta_statuses", "user_meta", "statuses"),
       DDLIndex("video_notes_source_id", "video_notes", "source_id"),
       DDLIndex("csv_consolidated_hash", "csv_consolidated_raw", "csv_row_hash") >>

\* Does the object the statement creates already exist (IF NOT EXISTS)?
DDLExists(schemas, name, st) ==
    /\ name \in DOMAIN schemas
    /\ CASE st.kind = "schema" -> TRUE
         [] st.kind = "table"  -> st.name \in schemas[name].tables
         [] st.kind = "fk"     -> st.name \in schemas[name].fks
         [] st.kind = "index"  -> st.name \in schemas[name].indexes

\* Can the object be created?  A foreign key needs the referenced key
\* videos(source_id, id); an index on videos needs its column.
DDLCreatable(schemas, name, st) ==
    CASE st.kind = "schema" -> TRUE
      [] st.kind = "table"  -> name \in DOMAIN schemas
      [] st.kind = "fk"     -> /\ name \in DOMAIN schemas
                               /\ st.tbl \in schemas[name].tables
                               /\ "videos" \in schemas[name].tables
                               /\ schemas[name].videoKey = VideosKey
      [] st.kind = "index"  -> /\ name \in DOMAIN schemas
                               /\ st.tbl \in schemas[name].tables
                               /\ st.tbl = "videos" => st.col \in schemas[name].videoCols

\* The catalog after the object is created
DDLCreate(schemas, name, st) ==
    CASE st.kind = "schema" ->
           [n \in DOMAIN schemas \cup {name} |->
               IF n = name THEN EmptySchema ELSE schemas[n]]
      [] st.kind = "table" ->
           [schemas EXCEPT ![name] =
               IF st.name = "videos"
               THEN [@ EXCEPT !.tables = @ \cup {"videos"},
                              !.videoCols = VideosColumns,
                              !.videoKey = VideosKey]
               ELSE [@ EXCEPT !.tables = @ \cup {st.name}]]
      [] st.kind = "fk" ->
           [schemas EXCEPT ![name].fks = @ \cup {st.name}]
      [] st.kind = "index" ->
           [schemas EXCEPT ![name].indexes = @ \cup {st.name}]

\* One executed statement, as recorded in the trace of a call
Stmt(kind, target) == [kind |-> kind, target |-> target]

\* _create_schema_objects(conn, schema) on one connection with nobody else
\* writing: the statements run in order inside one transaction; an error
\* aborts the call and the connection context rolls the transaction back.
RECURSIVE RunDDL(_, _, _, _, _)
RunDDL(orig, schemas, name, i, trace) ==
    IF i > Len(DDLStatements)
    THEN [ok |-> TRUE, schemas |-> schemas, stmts |-> trace]
    ELSE LET st == DDLStatements[i]
             tr == Append(trace, Stmt("ddl", name))
         IN  IF DDLExists(schemas, name, st)
             THEN RunDDL(orig, schemas, name, i + 1, tr)
             ELSE IF DDLCreatable(schemas, name, st)
                  THEN RunDDL(orig, DDLCreate(schemas, name, st), name, i + 1, tr)
                  ELSE [ok |-> FALSE, schemas |-> orig, stmts |-> tr]

_create_schema_objects(schemas, schema) ==
    IF ~SafeIdentTable[schema].ok
    THEN [ok |-> FALSE, schemas |-> schemas, stmts |-> << >>]
    ELSE RunDDL(schemas, schemas, SafeIdentTable[schema].v, 1, << >>)

\* _schema_has_required_layout(conn, schema)
RequiredCols == { "source_id", "id", "author_unique_id", "updated_at" }

LayoutNeverCompatible(schemas, schema) == FALSE

_schema_has_required_layout(schemas, schema) ==
    LET cols == IF schema \in DOMAIN schemas /\ "videos" \in schemas[schema].tables
                THEN schemas[schema].videoCols ELSE {}
    IN  IF cols = {} THEN TRUE
        ELSE IF ~(RequiredCols \subseteq cols) THEN FALSE
        ELSE "csv_authors_raw" \in schemas[schema].tables

(***************************************************************************)
(* State                                                                   *)
(***************************************************************************)
VARIABLES
    settings,   \* the Settings the repository was constructed with
    now,        \* the last value datetime.utcnow() returned
    sq,         \* the SQLite database: [sources, videos]
    pg,         \* the PostgreSQL database: [global, registry, sources, schemas]
    last,       \* the last repository call and its outcome
    procs       \* the resolve_schema calls that are in progress, per process

vars == << settings, now, sq, pg, last, procs >>

(***************************************************************************)
(* Global tables of the relational backend                                 *)
(***************************************************************************)
\* the constraints of public.<registry table> declared by _ensure_global_tables:
\* source_id TEXT PRIMARY KEY, schema_name TEXT NOT NULL UNIQUE
RegistryConstraintsNoUnique(rows) ==
    \A r1, r2 \in rows : r1.source_id = r2.source_id => r1 = r2

RegistryConstraints(rows) ==
    /\ \A r1, r2 \in rows : r1.source_id = r2.source_id => r1 = r2
    /\ \A r1, r2 \in rows : r1.schema_name = r2.schema_name => r1 = r2

\* SELECT schema_name FROM public.<registry> WHERE source_id=%s
RegistrySelectNothing(rows, sid) == {}

RegistrySelect(rows, sid) == { r \in rows : r.source_id = sid }

\* UPDATE public.<registry> SET schema_name=%s, updated_at=%s WHERE source_id=%s
RegistryUpdate(rows, sid, schema, t) ==
    LET new == { IF r.source_id = sid
                 THEN [r EXCEPT !.schema_name = schema, !.updated_at = t]
                 ELSE r : r \in rows }
    IN  IF RegistryConstraints(new) THEN [ok |-> TRUE, rows |-> new]
        ELSE [ok |-> FALSE, rows |-> rows]

\* INSERT INTO public.<registry> ... ON CONFLICT(source_id) DO UPDATE SET
\*   schema_name=EXCLUDED.schema_name, updated_at=EXCLUDED.updated_at
RegistryUpsert(rows, sid, schema, t) ==
    IF RegistrySelect(rows, sid) # {}
    THEN RegistryUpdate(rows, sid, schema, t)
    ELSE LET new == rows \cup { [source_id |-> sid, schema_name |-> schema,
                                 created_at |-> t, updated_at |-> t] }
         IN  IF RegistryConstraints(new) THEN [ok |-> TRUE, rows |-> new]
             ELSE [ok |-> FALSE, rows |-> rows]

SourceRow(sid, label, isDefault, t) ==
    [id |-> sid, label |-> label, kind |-> NoneStr, description |-> NoneStr,
     enabled |-> 1, is_default |-> isDefault, created_at |-> t, updated_at |-> t]

\* INSERT INTO public.sources(id, label, enabled, is_default, ...) VALUES(.., 1, 0, ..)
\*   ON CONFLICT(id) DO UPDATE SET updated_at=EXCLUDED.updated_at
PgSourcesUpsert(rows, sid, t) ==
    IF \E r \in rows : r.id = sid
    THEN { IF r.id = sid THEN [r EXCEPT !.updated_at = t] ELSE r : r \in rows }
    ELSE rows \cup { SourceRow(sid, sid, 0, t) }

(***************************************************************************)
(* PostgresRepository: schema resolution                                   *)
(***************************************************************************)
\* sanitize_source_id(source_id, fallback=self.settings.SX_DEFAULT_SOURCE_ID)
Sid(source_id) == SanitizedTable[source_id]

\* schema_name_for_source(source_id)
schema_name_for_source(source_id) ==
    SafeIdentTable[CanonicalUnder(settings.prefix, Sid(source_id))]

\* str(getattr(settings, "SX_PROFILE_INDEX", "") or "")
ProfileIndexStr == IF settings.profile_index = 0 THEN << >> ELSE IntToStr(settings.profile_index)

\* the comparison at the end of _assert_schema_index_guard, on the parsed
\* index of the schema name, of the source id and of SX_PROFILE_INDEX
IndexGuard(schema_idx, source_idx, profile_idx) ==
    IF schema_idx = NoIndex THEN ""
    ELSE IF source_idx # NoIndex /\ profile_idx # NoIndex /\ source_idx # profile_idx
         THEN "SchemaIndexMismatch"
    ELSE IF source_idx # NoIndex
         THEN (IF schema_idx # source_idx THEN "SchemaIndexMismatch" ELSE "")
    ELSE IF profile_idx = NoIndex THEN ""
    ELSE IF schema_idx # profile_idx THEN "SchemaIndexMismatch"
    ELSE ""

\* _assert_schema_index_guard(source_id, schema_name): "" when the guard
\* lets the pair through, else the error it raises
GuardAlwaysPasses(source_id, schema_name) == ""

_assert_schema_index_guard(source_id, schema_name) ==
    IF ~settings.guard THEN ""
    ELSE With(SafeIdentTable[schema_name], LAMBDA schema :
           IF ~schema.ok THEN "ValueError"
           ELSE IndexGuard(SchemaIndexTable[schema.v],
                           TrailingIndexTable[Sid(source_id)],
                           TrailingIndexTable[ProfileIndexStr]))

\* the outcome of a call: the database it leaves, whether it returned, the
\* error it raised, the schema name it returned (or failed the guard with),
\* and the statements it executed
Outcome(db, err, schema, stmts) ==
    [pg |-> db, ok |-> (err = ""), err |-> err, schema |-> schema, stmts |-> stmts]

\* self._create_schema_objects(conn, schema); self._assert_schema_index_guard(sid, schema)
\* on the database db, after the statements tr
ProvisionAndGuard(db, sid, schema, tr) ==
    With(_create_schema_objects(db.schemas, schema), LAMBDA ddl :
      IF ~ddl.ok
      THEN Outcome([db EXCEPT !.schemas = ddl.schemas], "DriverError", << >>,
                   tr \o ddl.stmts)
      ELSE Outcome([db EXCEPT !.schemas = ddl.schemas],
                   _assert_schema_index_guard(sid, schema), schema, tr \o ddl.stmts))

\* resolve_schema, the branch taken when the registry holds a row for sid
ResolveMapped(db, sid, canonical, row, create_if_missing, t, tr) ==
    With(SafeIdentTable[row.schema_name], LAMBDA schema :
      IF ~schema.ok THEN Outcome(db, "ValueError", << >>, tr)
      ELSE IF create_if_missing /\ ~_schema_has_required_layout(db.schemas, schema.v)
      THEN \* remap to the canonical dedicated schema
           With(RegistryUpdate(db.registry, sid, canonical, t), LAMBDA upd :
             IF ~upd.ok
             THEN Outcome(db, "DriverError", << >>,
                          Append(tr, Stmt("registry_update", canonical)))
             ELSE ProvisionAndGuard([db EXCEPT !.registry = upd.rows], sid, canonical,
                                    Append(tr, Stmt("registry_update", canonical))))
      ELSE IF create_if_missing
      THEN \* compatible mapped schema: ensure all required tables/indexes
           ProvisionAndGuard(db, sid, schema.v, tr)
      ELSE Outcome(db, _assert_schema_index_guard(sid, schema.v), schema.v, tr))

\* resolve_schema, the branch taken when the registry holds no row for sid
ResolveUnmapped(db, sid, canonical, create_if_missing, t, tr) ==
    IF ~create_if_missing THEN Outcome(db, "SchemaNotMapped", << >>, tr)
    ELSE With(RegistryUpsert(db.registry, sid, canonical, t), LAMBDA ins :
           IF ~ins.ok
           THEN Outcome(db, "DriverError", << >>,
                        Append(tr, Stmt("registry_insert", canonical)))
           ELSE ProvisionAndGuard(
                    [db EXCEPT !.registry = ins.rows,
                               !.sources = PgSourcesUpsert(@, sid, t)],
                    sid, canonical,
                    tr \o << Stmt("registry_insert", canonical),
                             Stmt("sources_upsert", sid) >>))

\* resolve_schema after sid and the canonical name are computed and
\* _ensure_global_tables has run: the registry lookup and its two branches
ResolveLookup(db, sid, canonical, create_if_missing, t) ==
    With(RegistrySelect(db.registry, sid), LAMBDA found :
      IF \E r \in found : r.schema_name # << >>
      THEN ResolveMapped(db, sid, canonical, CHOOSE r \in found : r.schema_name # << >>,
                         create_if_missing, t, << Stmt("registry_select", sid) >>)
      ELSE ResolveUnmapped(db, sid, canonical, create_if_missing, t,
                           << Stmt("registry_select", sid) >>))

\* resolve_schema(source_id, create_if_missing) called at time t
resolve_schema(db0, source_id, create_if_missing, t) ==
    With(schema_name_for_source(Sid(source_id)), LAMBDA canonical :
      IF ~canonical.ok THEN Outcome(db0, "ValueError", << >>, << >>)
      ELSE ResolveLookup([db0 EXCEPT !.global = TRUE], Sid(source_id), canonical.v,
                         create_if_missing, t))

\* connection_for_source after its resolve_schema call came back with r:
\* the guard again, then connect and SET search_path TO "<schema>", public
ConnectionOnDefaultPath(r, sid) == r @@ [search_path |-> << PublicSchema >>]

ConnectionAfterResolve(r, sid) ==
    IF ~r.ok THEN r @@ [search_path |-> << >>]
    ELSE With(_assert_schema_index_guard(sid, r.schema), LAMBDA g :
           IF g # "" THEN Outcome(r.pg, g, r.schema, r.stmts) @@ [search_path |-> << >>]
           ELSE Outcome(r.pg, "", r.schema,
                        Append(r.stmts, Stmt("set_search_path", r.schema)))
                @@ [search_path |-> << r.schema, PublicSchema >>])

\* connection_for_source(source_id): the outcome carries the session's
\* schema search order in search_path
connection_for_source(db0, source_id, t) ==
    With(resolve_schema(db0, Sid(source_id), FALSE, t), LAMBDA r :
      ConnectionAfterResolve(r, Sid(source_id)))

(***************************************************************************)
(* Item statements, shared by both repositories                            *)
(***************************************************************************)
\* str(payload.get("id") or "").strip()
PayloadItemIdUnstripped(payload) == OrEmpty(payload.id)

PayloadItemId(payload) == Strip(OrEmpty(payload.id))

\* the row write_item binds to its INSERT
ItemRow(sid, item_id, payload, t) ==
    [source_id |-> sid, id |-> item_id, platform |-> Tiktok,
     caption |-> OrEmpty(payload.caption), bookmarked |-> payload.bookmarked,
     updated_at |-> t]

\* INSERT INTO videos(...) VALUES(...) ON CONFLICT(source_id, id) DO UPDATE SET
\*   platform, caption, bookmarked, updated_at
UpsertItemNoSourceKey(rows, row) ==
    { r \in rows : r.id # row.id } \cup { row }

UpsertItem(rows, row) ==
    { r \in rows : ~(r.source_id = row.source_id /\ r.id = row.id) } \cup { row }

\* SELECT * FROM videos WHERE source_id=? AND id=?   (fetchone: no row or one)
SelectItemNoSourceFilter(rows, sid, item_id) ==
    IF \E r \in rows : r.id = item_id
    THEN { CHOOSE r \in rows : r.id = item_id }
    ELSE {}

SelectItem(rows, sid, item_id) ==
    { r \in rows : r.source_id = sid /\ r.id = item_id }

\* SELECT ... FROM videos WHERE source_id=? ORDER BY updated_at DESC LIMIT ? OFFSET ?
\* with a limit no smaller than the table and offset 0: the rows, unordered
SelectItems(rows, sid) == { r \in rows : r.source_id = sid }

(***************************************************************************)
(* SqliteRepository                                                        *)
(***************************************************************************)
\* ensure_source(conn, sid, label=sid): kind and description are passed as
\* NULL, so COALESCE keeps the stored ones; label and enabled are overwritten
ensure_source(rows, sid, label, t) ==
    IF \E r \in rows : r.id = sid
    THEN { IF r.id = sid
           THEN [r EXCEPT !.label = label, !.enabled = 1, !.updated_at = t]
           ELSE r : r \in rows }
    ELSE rows \cup { SourceRow(sid, label, 0, t) }

SqOutcome(db, err, rows) == [sq |-> db, ok |-> (err = ""), err |-> err, rows |-> rows]

\* SqliteRepository.init_schema(source_id)
SqliteInitSchema(db, source_id, t) ==
    SqOutcome([db EXCEPT !.sources = ensure_source(@, Sid(source_id), Sid(source_id), t)],
              "", {})

\* SqliteRepository.write_item(source_id, payload)
SqliteWriteItem(db, source_id, payload, t) ==
    LET sid == Sid(source_id)
        item_id == PayloadItemId(payload)
    IN  IF item_id = << >> THEN SqOutcome(db, "ValueError", {})
        ELSE SqOutcome([db EXCEPT !.videos = UpsertItem(@, ItemRow(sid, item_id, payload, t))],
                       "", {})

\* SqliteRepository.get_item(source_id, item_id)
SqliteGetItem(db, source_id, item_id) ==
    SqOutcome(db, "", SelectItem(db.videos, Sid(source_id), item_id))

\* SqliteRepository.list_items(source_id)
SqliteListItems(db, source_id) ==
    SqOutcome(db, "", SelectItems(db.videos, Sid(source_id)))

(***************************************************************************)
(* PostgresRepository: item operations over connection_for_source          *)
(***************************************************************************)
\* the schema an unqualified `videos` names on a session: the first schema
\* of the search order that holds such a table ({} when there is none)
ResolveVideos(schemas, search_path) ==
    LET hits == { i \in DOMAIN search_path :
                    /\ search_path[i] \in DOMAIN schemas
                    /\ "videos" \in schemas[search_path[i]].tables }
    IN  IF hits = {} THEN {}
        ELSE { search_path[CHOOSE i \in hits : \A j \in hits : i <= j] }

PgItemOutcome(c, db, err, rows, target) ==
    [pg |-> db, ok |-> (err = ""), err |-> err, schema |-> c.schema,
     stmts |-> c.stmts, search_path |-> c.search_path, rows |-> rows,
     target |-> target]

\* columns the statements of write_item / get_item / list_items name
WriteItemCols == { "source_id", "id", "platform", "caption", "bookmarked", "updated_at" }
GetItemCols == { "source_id", "id" }
ListItemsCols == { "id", "platform", "author_id", "author_unique_id", "author_name",
                   "caption", "bookmarked", "video_path", "cover_path", "updated_at",
                   "source_id" }

\* write_item on the connection c that connection_for_source returned
WriteItemOn(c, sid, item_id, payload, t) ==
    LET tgt == ResolveVideos(c.pg.schemas, c.search_path)
        sch == CHOOSE n \in tgt : TRUE
    IN  IF ~c.ok THEN PgItemOutcome(c, c.pg, c.err, {}, {})
        ELSE IF tgt = {} THEN PgItemOutcome(c, c.pg, "DriverError", {}, {})
        ELSE IF ~(WriteItemCols \subseteq c.pg.schemas[sch].videoCols
                  /\ c.pg.schemas[sch].videoKey = VideosKey)
             THEN PgItemOutcome(c, c.pg, "DriverError", {}, tgt)
        ELSE PgItemOutcome(c,
                 [c.pg EXCEPT !.schemas[sch].rows =
                     UpsertItem(@, ItemRow(sid, item_id, payload, t))],
                 "", {}, tgt)

\* PostgresRepository.write_item(source_id, payload)
PostgresWriteItem(db0, source_id, payload, t) ==
    IF PayloadItemId(payload) = << >>
    THEN [pg |-> db0, ok |-> FALSE, err |-> "ValueError", schema |-> << >>,
          stmts |-> << >>, search_path |-> << >>, rows |-> {}, target |-> {}]
    ELSE With(connection_for_source(db0, Sid(source_id), t), LAMBDA c :
           WriteItemOn(c, Sid(source_id), PayloadItemId(payload), payload, t))

\* get_item on the connection c that connection_for_source returned
GetItemOn(c, sid, item_id) ==
    LET tgt == ResolveVideos(c.pg.schemas, c.search_path)
        sch == CHOOSE n \in tgt : TRUE
    IN  IF ~c.ok THEN PgItemOutcome(c, c.pg, c.err, {}, {})
        ELSE IF tgt = {} THEN PgItemOutcome(c, c.pg, "DriverError", {}, {})
        ELSE IF ~(GetItemCols \subseteq c.pg.schemas[sch].videoCols)
             THEN PgItemOutcome(c, c.pg, "DriverError", {}, tgt)
        ELSE PgItemOutcome(c, c.pg, "", SelectItem(c.pg.schemas[sch].rows, sid, item_id), tgt)

\* PostgresRepository.get_item(source_id, item_id)
PostgresGetItem(db0, source_id, item_id, t) ==
    With(connection_for_source(db0, Sid(source_id), t), LAMBDA c :
      GetItemOn(c, Sid(source_id), item_id))

\* list_items on the connection c that connection_for_source returned
ListItemsOn(c, sid) ==
    LET tgt == ResolveVideos(c.pg.schemas, c.search_path)
        sch == CHOOSE n \in tgt : TRUE
    IN  IF ~c.ok THEN PgItemOutcome(c, c.pg, c.err, {}, {})
        ELSE IF tgt = {} THEN PgItemOutcome(c, c.pg, "DriverError", {}, {})
        ELSE IF ~(ListItemsCols \subseteq c.pg.schemas[sch].videoCols)
             THEN PgItemOutcome(c, c.pg, "DriverError", {}, tgt)
        ELSE PgItemOutcome(c, c.pg, "", SelectItems(c.pg.schemas[sch].rows, sid), tgt)

\* PostgresRepository.list_items(source_id)
PostgresListItems(db0, source_id, t) ==
    With(connection_for_source(db0, Sid(source_id), t), LAMBDA c :
      ListItemsOn(c, Sid(source_id)))

(***************************************************************************)
(* Initial states                                                          *)
(***************************************************************************)
\* get_repository(settings).backend_name
get_repository(st) ==
    IF st.mode = "POSTGRES_PRIMARY" THEN "postgres_primary" ELSE "sqlite"

\* the Settings of a relational-primary deployment
PgSettings ==
    { [mode |-> "POSTGRES_PRIMARY", prefix |-> p, guard |-> g, profile_index |-> i,
       default_source |-> DefaultSourceId] :
         p \in Prefixes, g \in BOOLEAN, i \in ProfileIndexes }
\* the default Settings (packages/sx_db/settings.py), with either backend mode
DefaultSettings ==
    { [mode |-> m, prefix |-> SxPrefix, guard |-> TRUE, profile_index |-> 1,
       default_source |-> DefaultSourceId] : m \in { "SQLITE", "POSTGRES_PRIMARY" } }

\* a schema provisioned by _create_schema_objects
ProvisionedLayout ==
    [tables |-> { DDLStatements[i].name : i \in { j \in DOMAIN DDLStatements :
                                                    DDLStatements[j].kind = "table" } },
     videoCols |-> VideosColumns, videoKey |-> VideosKey,
     fks |-> { DDLStatements[i].name : i \in { j \in DOMAIN DDLStatements :
                                                 DDLStatements[j].kind = "fk" } },
     indexes |-> { DDLStatements[i].name : i \in { j \in DOMAIN DDLStatements :
                                                     DDLStatements[j].kind = "index" } },
     rows |-> {}]
\* a schema of another application that reuses the table name videos
ForeignLayout ==
    [tables |-> {"videos"}, videoCols |-> {"id", "caption", "updated_at"},
     videoKey |-> {"id"}, fks |-> {}, indexes |-> {}, rows |-> {}]
\* a schema with the tables of sx_obsidian but no csv_authors_raw yet
OldLayout ==
    [tables |-> {"videos", "user_meta", "video_notes"},
     videoCols |-> VideosColumns, videoKey |-> VideosKey,
     fks |-> {}, indexes |-> {}, rows |-> {}]

RegistryRow(sid, schema) ==
    [source_id |-> sid, schema_name |-> schema, created_at |-> 0, updated_at |-> 0]

OneSchema(name, layout) == [n \in {name} |-> layout]

FreshPg == [global |-> FALSE, registry |-> {}, sources |-> {}, schemas |-> << >>]

\* the databases a deployment can be pointed at: a fresh one, and ones that
\* hold mappings or schemas from before (legacy/shared schemas are what the
\* structural probe of resolve_schema is there for)
PgDatabases(prefix) ==
    { FreshPg,
      [global |-> TRUE, registry |-> { RegistryRow(SrcA2, SharedSchema) },
       sources |-> { SourceRow(SrcA2, SrcA2, 0, 0) },
       schemas |-> OneSchema(SharedSchema, ForeignLayout)],
      [global |-> TRUE, registry |-> { RegistryRow(SrcA1, CanonicalUnder(prefix, SrcA1)) },
       sources |-> { SourceRow(SrcA1, SrcA1, 0, 0) },
       schemas |-> OneSchema(CanonicalUnder(prefix, SrcA1), OldLayout)],
      [global |-> TRUE, registry |-> { RegistryRow(SrcA2, UnifiedSchema) },
       sources |-> { SourceRow(SrcA2, SrcA2, 0, 0) },
       schemas |-> OneSchema(UnifiedSchema, ProvisionedLayout)],
      [global |-> FALSE, registry |-> {}, sources |-> {},
       schemas |-> OneSchema(CanonicalUnder(prefix, SrcA2), ForeignLayout)] }

\* the processes that share the relational database
Procs == { 1, 2 }

\* a process that is not inside resolve_schema
IdleProc ==
    [pc |-> "idle", sid |-> << >>, canonical |-> << >>, target |-> << >>, i |-> 0,
     regPending |-> "", t |-> 0, pending |-> << >>, created |-> {},
     waiting |-> FALSE, err |-> "", schema |-> << >>]

NoPayload == [id |-> NoneStr, caption |-> NoneStr, bookmarked |-> 0]

NoResult ==
    [ok |-> TRUE, err |-> "", schema |-> << >>, search_path |-> << >>,
     stmts |-> << >>, rows |-> {}, target |-> {}]

InitWith(settingsSpace) ==
    /\ settings \in settingsSpace
    /\ now = 0
    /\ sq = [sources |-> {}, videos |-> {}]
    /\ pg \in (IF settings.mode = "POSTGRES_PRIMARY"
               THEN PgDatabases(settings.prefix) ELSE { FreshPg })
    /\ last = [op |-> "construct", backend |-> get_repository(settings),
               raw |-> << >>, sid |-> << >>, create |-> FALSE, item_id |-> << >>,
               payload |-> NoPayload] @@ NoResult
    /\ procs = [p \in Procs |-> IdleProc]

\* a relational-primary deployment under any of the modelled settings
Init == InitWith(PgSettings)

\* a deployment of either backend under the default settings
InitItems == InitWith(DefaultSettings)

(***************************************************************************)
(* Actions: one repository call each                                       *)
(***************************************************************************)
\* the values utcnow() can return to a call
Clock == { t \in now .. (now + 1) : t <= MaxNow }

\* write_item reads utcnow() only after the payload id has been validated
WriteClock(payload) == IF PayloadItemId(payload) = << >> THEN { now } ELSE Clock

IsSqlite == get_repository(settings) = "sqlite"
IsPostgres == get_repository(settings) = "postgres_primary"

SqCall(op, raw, item_id, payload, r) ==
    /\ sq' = r.sq
    /\ last' = [op |-> op, backend |-> "sqlite", raw |-> raw, sid |-> Sid(raw),
                create |-> FALSE, item_id |-> item_id, payload |-> payload,
                ok |-> r.ok, err |-> r.err, schema |-> << >>, search_path |-> << >>,
                stmts |-> << >>, rows |-> r.rows, target |-> {}]
    /\ UNCHANGED << settings, pg, procs >>

PgCall(op, raw, create, item_id, payload, r) ==
    /\ pg' = r.pg
    /\ last' = [op |-> op, backend |-> "postgres_primary", raw |-> raw, sid |-> Sid(raw),
                create |-> create, item_id |-> item_id, payload |-> payload,
                ok |-> r.ok, err |-> r.err, schema |-> r.schema,
                search_path |-> r.search_path, stmts |-> r.stmts, rows |-> r.rows,
                target |-> r.target]
    /\ UNCHANGED << settings, sq, procs >>

SqInitSchema(raw) ==
    /\ IsSqlite
    /\ \E t \in Clock :
         /\ now' = t
         /\ \E r \in { SqliteInitSchema(sq, raw, t) } :
              SqCall("init_schema", raw, << >>, NoPayload, r)

SqWriteItem(raw, payload) ==
    /\ IsSqlite
    /\ \E t \in WriteClock(payload) :
         /\ now' = t
         /\ \E r \in { SqliteWriteItem(sq, raw, payload, t) } :
              SqCall("write_item", raw, << >>, payload, r)

SqGetItem(raw, item_id) ==
    /\ IsSqlite
    /\ UNCHANGED now
    /\ \E r \in { SqliteGetItem(sq, raw, item_id) } :
         SqCall("get_item", raw, item_id, NoPayload, r)

SqListItems(raw) ==
    /\ IsSqlite
    /\ UNCHANGED now
    /\ \E r \in { SqliteListItems(sq, raw) } :
         SqCall("list_items", raw, << >>, NoPayload, r)

PgResolve(raw, create) ==
    /\ IsPostgres
    /\ \E t \in Clock :
         /\ now' = t
         /\ \E r \in { resolve_schema(pg, raw, create, t) } :
              PgCall("resolve_schema", raw, create, << >>, NoPayload,
                     r @@ [search_path |-> << >>, rows |-> {}, target |-> {}])

\* PostgresRepository.init_schema(source_id)
PgInitSchema(raw) ==
    /\ IsPostgres
    /\ \E t \in Clock :
         /\ now' = t
         /\ \E r \in { resolve_schema(pg, Sid(raw), TRUE, t) } :
              PgCall("init_schema", raw, TRUE, << >>, NoPayload,
                     r @@ [search_path |-> << >>, rows |-> {}, target |-> {}])

PgConnection(raw) ==
    /\ IsPostgres
    /\ UNCHANGED now
    /\ \E r \in { connection_for_source(pg, raw, now) } :
         PgCall("connection_for_source", raw, FALSE, << >>, NoPayload,
                r @@ [rows |-> {}, target |-> {}])

PgWriteItem(raw, payload) ==
    /\ IsPostgres
    /\ \E t \in WriteClock(payload) :
         /\ now' = t
         /\ \E r \in { PostgresWriteItem(pg, raw, payload, t) } :
              PgCall("write_item", raw, FALSE, << >>, payload, r)

PgGetItem(raw, item_id) ==
    /\ IsPostgres
    /\ UNCHANGED now
    /\ \E r \in { PostgresGetItem(pg, raw, item_id, now) } :
         PgCall("get_item", raw, FALSE, item_id, NoPayload, r)

PgListItems(raw) ==
    /\ IsPostgres
    /\ UNCHANGED now
    /\ \E r \in { PostgresListItems(pg, raw, now) } :
         PgCall("list_items", raw, FALSE, << >>, NoPayload, r)

\* Spec: the schema-resolution calls of the relational repository
Next ==
    \/ \E raw \in RawSourceIds, create \in BOOLEAN : PgResolve(raw, create)
    \/ \E raw \in RawSourceIds : PgInitSchema(raw)
    \/ \E raw \in RawSourceIds : PgConnection(raw)

Spec == Init /\ [][Next]_vars

\* SpecItems: the item calls of both repositories; on the relational one a
\* tenant is provisioned by init_schema first
NextItems ==
    \/ \E raw \in ItemSourceIds, payload \in Payloads : SqWriteItem(raw, payload)
    \/ \E raw \in ItemSourceIds, item_id \in ItemIds : SqGetItem(raw, item_id)
    \/ \E raw \in ItemSourceIds : SqListItems(raw)
    \/ \E raw \in ItemSourceIds : PgInitSchema(raw)
    \/ \E raw \in ItemSourceIds, payload \in Payloads : PgWriteItem(raw, payload)
    \/ \E raw \in ItemSourceIds, item_id \in ItemIds : PgGetItem(raw, item_id)
    \/ \E raw \in ItemSourceIds : PgListItems(raw)

SpecItems == InitItems /\ [][NextItems]_vars


(***************************************************************************)
(* SpecRace: resolve_schema(s, create_if_missing=True) run by two          *)
(* processes against one database, one statement at a time.  pg holds what *)
(* is committed; procs[p] holds what p's open transaction has written.     *)
(***************************************************************************)
\* the tenant the processes provision
RaceSource == SrcA1

\* the database before the tenant is registered: the global tables exist
RacePg == [FreshPg EXCEPT !.global = TRUE]

\* a database in which the tenant is mapped to a shared legacy schema
RaceLegacyPg ==
    [global |-> TRUE, registry |-> { RegistryRow(RaceSource, SharedSchema) },
     sources |-> { SourceRow(RaceSource, RaceSource, 0, 0) },
     schemas |-> OneSchema(SharedSchema, ForeignLayout)]

RECURSIVE ApplyDDL(_, _, _)
ApplyDDL(schemas, name, stmts) ==
    IF stmts = << >> THEN schemas
    ELSE ApplyDDL(DDLCreate(schemas, name, Head(stmts)), name, Tail(stmts))

\* the catalog as p's open transaction sees it: what is committed plus the
\* objects the transaction itself created
TxnView(p) == ApplyDDL(pg.schemas, procs[p].target, procs[p].pending)

\* another open transaction has created the object of st and not committed
OtherHolds(p, st) ==
    \E q \in Procs \ {p} :
        /\ procs[q].target = procs[p].target
        /\ \E k \in DOMAIN procs[q].pending : procs[q].pending[k] = st

\* another open transaction holds the row lock of the registry row of sid
OtherHoldsRow(p) ==
    \E q \in Procs \ {p} : procs[q].regPending # "" /\ procs[q].sid = procs[p].sid

\* p after the DDL statement procs[p].i is through
AfterStatement(pr) ==
    IF pr.i < Len(DDLStatements)
    THEN [pr EXCEPT !.i = @ + 1, !.waiting = FALSE]
    ELSE [pr EXCEPT !.pc = "commit2", !.waiting = FALSE]

\* p after a statement raised: the connection context rolls back
AfterError(pr) ==
    [pr EXCEPT !.pc = "done", !.err = "DriverError", !.pending = << >>,
               !.regPending = "", !.waiting = FALSE]

\* sid, canonical_schema, connect, _ensure_global_tables (a no-op here)
RaceStart(p) ==
    /\ IsPostgres /\ pg.global
    /\ procs[p].pc = "idle"
    /\ procs' = [procs EXCEPT ![p] =
                   [IdleProc EXCEPT !.pc = "select", !.sid = Sid(RaceSource),
                                    !.canonical = schema_name_for_source(RaceSource).v]]
    /\ UNCHANGED << settings, now, sq, pg, last >>

\* SELECT schema_name FROM registry WHERE source_id=%s
RaceSelect(p) ==
    /\ procs[p].pc = "select"
    /\ \E found \in { RegistrySelect(pg.registry, procs[p].sid) } :
         procs' = [procs EXCEPT ![p] =
                     IF found # {}
                     THEN [@ EXCEPT !.pc = "probe",
                                    !.target = (CHOOSE r \in found : TRUE).schema_name]
                     ELSE [@ EXCEPT !.pc = "upsert"]]
    /\ UNCHANGED << settings, now, sq, pg, last >>

\* _schema_has_required_layout(conn, schema) on the mapped schema
RaceProbe(p) ==
    /\ procs[p].pc = "probe"
    /\ procs' = [procs EXCEPT ![p] =
                   IF _schema_has_required_layout(pg.schemas, procs[p].target)
                   THEN [@ EXCEPT !.pc = "ddl", !.i = 1]
                   ELSE [@ EXCEPT !.pc = "remap"]]
    /\ UNCHANGED << settings, now, sq, pg, last >>

\* UPDATE registry SET schema_name=canonical: waits for the row lock
RaceRemap(p) ==
    /\ procs[p].pc = "remap"
    /\ ~OtherHoldsRow(p)
    /\ \E t \in Clock :
         /\ now' = t
         /\ procs' = [procs EXCEPT ![p] =
                        [@ EXCEPT !.pc = "commit1", !.regPending = "update", !.t = t,
                                  !.target = procs[p].canonical]]
    /\ UNCHANGED << settings, sq, pg, last >>

\* INSERT INTO registry ... ON CONFLICT(source_id) DO UPDATE: waits for the
\* row lock when another transaction has written the row and not committed
RaceUpsert(p) ==
    /\ procs[p].pc = "upsert"
    /\ ~OtherHoldsRow(p)
    /\ \E t \in Clock :
         /\ now' = t
         /\ procs' = [procs EXCEPT ![p] =
                        [@ EXCEPT !.pc = "sources", !.regPending = "insert", !.t = t,
                                  !.target = procs[p].canonical]]
    /\ UNCHANGED << settings, sq, pg, last >>

\* INSERT INTO public.sources ... ON CONFLICT(id) DO UPDATE
RaceSources(p) ==
    /\ procs[p].pc = "sources"
    /\ procs' = [procs EXCEPT ![p] = [@ EXCEPT !.pc = "commit1"]]
    /\ UNCHANGED << settings, now, sq, pg, last >>

\* conn.commit() of the registry (and sources) writes
RaceCommit1(p) ==
    /\ procs[p].pc = "commit1"
    /\ \E res \in { IF procs[p].regPending = "update"
                    THEN RegistryUpdate(pg.registry, procs[p].sid, procs[p].canonical,
                                        procs[p].t)
                    ELSE RegistryUpsert(pg.registry, procs[p].sid, procs[p].canonical,
                                        procs[p].t) } :
         IF res.ok
         THEN /\ pg' = [pg EXCEPT !.registry = res.rows,
                                  !.sources = IF procs[p].regPending = "insert"
                                              THEN PgSourcesUpsert(@, procs[p].sid, procs[p].t)
                                              ELSE @]
              /\ procs' = [procs EXCEPT ![p] =
                             [@ EXCEPT !.pc = "ddl", !.i = 1, !.regPending = ""]]
         ELSE /\ pg' = pg
              /\ procs' = [procs EXCEPT ![p] = AfterError(@)]
    /\ UNCHANGED << settings, now, sq, last >>

\* one statement of _create_schema_objects.  CREATE ... IF NOT EXISTS skips
\* an object the transaction can see; an object that another open
\* transaction has created is not visible, so the statement goes on to
\* create it and blocks on that transaction.
RaceDDL(p) ==
    /\ procs[p].pc = "ddl" /\ ~procs[p].waiting
    /\ \E st \in { DDLStatements[procs[p].i] } :
         procs' = [procs EXCEPT ![p] =
           IF DDLExists(TxnView(p), procs[p].target, st) THEN AfterStatement(@)
           ELSE IF OtherHolds(p, st) THEN [@ EXCEPT !.waiting = TRUE]
           ELSE IF DDLCreatable(TxnView(p), procs[p].target, st)
                THEN AfterStatement([@ EXCEPT !.pending = Append(@, st)])
           ELSE AfterError(@)]
    /\ UNCHANGED << settings, now, sq, pg, last >>

\* the blocked statement goes on when the other transaction ends: it raises
\* a unique violation if the object was committed, and creates it otherwise
RaceDDLResume(p) ==
    /\ procs[p].pc = "ddl" /\ procs[p].waiting
    /\ \E st \in { DDLStatements[procs[p].i] } :
         /\ ~OtherHolds(p, st)
         /\ procs' = [procs EXCEPT ![p] =
              IF DDLExists(pg.schemas, procs[p].target, st) THEN AfterError(@)
              ELSE IF DDLCreatable(TxnView(p), procs[p].target, st)
                   THEN AfterStatement([@ EXCEPT !.pending = Append(@, st)])
              ELSE AfterError(@)]
    /\ UNCHANGED << settings, now, sq, pg, last >>

\* conn.commit() at the end of _create_schema_objects
RaceCommit2(p) ==
    /\ procs[p].pc = "commit2"
    /\ pg' = [pg EXCEPT !.schemas = TxnView(p)]
    /\ procs' = [procs EXCEPT ![p] =
                   [@ EXCEPT !.pc = "guard", !.pending = << >>,
                             !.created = { procs[p].pending[k] : k \in DOMAIN procs[p].pending }]]
    /\ UNCHANGED << settings, now, sq, last >>

\* _assert_schema_index_guard(sid, schema); return schema
RaceGuard(p) ==
    /\ procs[p].pc = "guard"
    /\ \E g \in { _assert_schema_index_guard(procs[p].sid, procs[p].target) } :
         procs' = [procs EXCEPT ![p] =
                     [@ EXCEPT !.pc = "done", !.err = g,
                               !.schema = IF g = "" THEN procs[p].target ELSE << >>]]
    /\ UNCHANGED << settings, now, sq, pg, last >>

InitRace ==
    /\ settings \in { st \in DefaultSettings : st.mode = "POSTGRES_PRIMARY" }
    /\ now = 0
    /\ sq = [sources |-> {}, videos |-> {}]
    /\ pg \in { RacePg, RaceLegacyPg }
    /\ last = [op |-> "construct", backend |-> get_repository(settings),
               raw |-> << >>, sid |-> << >>, create |-> FALSE, item_id |-> << >>,
               payload |-> NoPayload] @@ NoResult
    /\ procs = [p \in Procs |-> IdleProc]

NextRace ==
    \E p \in Procs :
        \/ RaceStart(p)
        \/ RaceSelect(p)
        \/ RaceUpsert(p)
        \/ RaceSources(p)
        \/ RaceCommit1(p)
        \/ RaceDDL(p)
        \/ RaceDDLResume(p)
        \/ RaceCommit2(p)
        \/ RaceGuard(p)
        \/ RaceProbe(p)
        \/ RaceRemap(p)

SpecRace == InitRace /\ [][NextRace]_vars

(***************************************************************************)
(* SpecReader: SpecRace with a third process that calls                    *)
(* connection_for_source for the tenant the others are provisioning.  The  *)
(* call reads what is committed.                                           *)
(***************************************************************************)
NextReader ==
    \/ NextRace
    \/ PgConnection(RaceSource)

SpecReader == InitRace /\ [][NextReader]_vars

(***************************************************************************)
(* The source registry: bootstrap, list, create, patch, activate, delete   *)
(***************************************************************************)
\* sanitize_source_id(settings.SX_DEFAULT_SOURCE_ID)
ConfiguredDefault == Sid(settings.default_source)

DefaultRows(rows) == { r \in rows : r.is_default = 1 }

\* UPDATE sources SET is_default=0 [WHERE is_default=1]
ClearDefault(rows) == { [r EXCEPT !.is_default = 0] : r \in rows }

\* INSERT INTO sources(id, label, enabled, is_default, ..) VALUES(sid, sid, 1, 1, ..)
\*   ON CONFLICT(id) DO UPDATE SET enabled=1, is_default=1, updated_at=..
SetDefaultUpsert(rows, sid, t) ==
    IF \E r \in rows : r.id = sid
    THEN { IF r.id = sid
           THEN [r EXCEPT !.enabled = 1, !.is_default = 1, !.updated_at = t]
           ELSE r : r \in rows }
    ELSE rows \cup { SourceRow(sid, sid, 1, t) }

\* set_default_source without its first statement
SetDefaultKeepsOthers(rows, sid, t) == SetDefaultUpsert(rows, sid, t)

\* set_default_source(conn, source_id)
set_default_source(rows, sid, t) == SetDefaultUpsert(ClearDefault(rows), sid, t)

\* ensure_source(default); if no row has is_default=1: set_default_source(default)
BootstrapSources(rows, t) ==
    With(ensure_source(rows, ConfiguredDefault, ConfiguredDefault, t), LAMBDA s1 :
      IF DefaultRows(s1) = {} THEN set_default_source(s1, ConfiguredDefault, t) ELSE s1)

\* create_app, bootstrap of the source registry on the embedded store
SqliteAppStart(db, t) ==
    SqOutcome([db EXCEPT !.sources = BootstrapSources(@, t)], "", {})

\* SqliteRepository.list_sources()
SqliteListSources(db, t) ==
    With(BootstrapSources(db.sources, t), LAMBDA s :
      SqOutcome([db EXCEPT !.sources = s], "", s))

\* POST /sources on the embedded store
SqliteCreateSource(db, source_id, make_default, t) ==
    With(ensure_source(db.sources, Sid(source_id), Sid(source_id), t), LAMBDA s1 :
      SqOutcome([db EXCEPT !.sources =
                    IF make_default THEN set_default_source(s1, Sid(source_id), t) ELSE s1],
                "", {}))

\* SourcePatchIn.enabled: None (NoPatch) or the integer the handler binds
NoPatch == 2
\* the values of it handed to patch_source
PatchValues == { NoPatch, 0, 1 }

\* UPDATE sources SET ..., enabled=COALESCE(?, enabled), updated_at=? WHERE id=?
PatchRows(rows, sid, enabled, t) ==
    { IF r.id = sid
      THEN [r EXCEPT !.enabled = IF enabled = NoPatch THEN @ ELSE enabled,
                     !.updated_at = t]
      ELSE r : r \in rows }

\* PATCH /sources/{source_id} on the embedded store
SqlitePatchSource(db, source_id, enabled, t) ==
    IF ~(\E r \in db.sources : r.id = Sid(source_id))
    THEN SqOutcome(db, "HTTP404", {})
    ELSE SqOutcome([db EXCEPT !.sources = PatchRows(@, Sid(source_id), enabled, t)], "", {})

\* POST /sources/{source_id}/activate on the embedded store
SqliteActivateSource(db, source_id, t) ==
    With(ensure_source(db.sources, Sid(source_id), Sid(source_id), t), LAMBDA s1 :
      SqOutcome([db EXCEPT !.sources = set_default_source(s1, Sid(source_id), t)], "", {}))

\* DELETE /sources/{source_id} on the embedded store
SqliteDeleteSource(db, source_id) ==
    IF Sid(source_id) = ConfiguredDefault THEN SqOutcome(db, "HTTP400", {})
    ELSE IF ~(\E r \in db.sources : r.id = Sid(source_id)) THEN SqOutcome(db, "HTTP404", {})
    ELSE IF \E r \in db.sources : r.id = Sid(source_id) /\ r.is_default = 1
         THEN SqOutcome(db, "HTTP400", {})
    ELSE IF \E v \in db.videos : v.source_id = Sid(source_id)
         THEN SqOutcome(db, "HTTP400", {})
    ELSE SqOutcome([db EXCEPT !.sources = { r \in @ : r.id # Sid(source_id) }], "", {})

\* the outcome of an API handler on the relational backend
ApiOutcome(db, err, schema, stmts) ==
    Outcome(db, err, schema, stmts) @@ [search_path |-> << >>, rows |-> {}, target |-> {}]

\* INSERT INTO public.sources(id, label, enabled, is_default, ..) VALUES(sid, sid, 1, 1, ..)
\*   ON CONFLICT(id) DO UPDATE SET is_default=1, updated_at=EXCLUDED.updated_at
PgDefaultUpsert(rows, sid, t) ==
    IF \E r \in rows : r.id = sid
    THEN { IF r.id = sid THEN [r EXCEPT !.is_default = 1, !.updated_at = t] ELSE r :
           r \in rows }
    ELSE rows \cup { SourceRow(sid, sid, 1, t) }

\* PostgresRepository.list_sources()
PostgresListSources(db, t) ==
    IF DefaultRows(db.sources) # {}
    THEN [ApiOutcome([db EXCEPT !.global = TRUE], "", << >>,
                     << Stmt("sources_select", << >>) >>)
          EXCEPT !.rows = db.sources]
    ELSE [ApiOutcome([db EXCEPT !.global = TRUE,
                                !.sources = PgDefaultUpsert(@, ConfiguredDefault, t)],
                     "", << >>,
                     << Stmt("sources_select", << >>),
                        Stmt("sources_upsert", ConfiguredDefault) >>)
          EXCEPT !.rows = db.sources]

\* create_app, bootstrap of the source registry on the relational backend:
\* init_schema(default) then list_sources(); an exception is swallowed
PgAppStart(db, t) ==
    With(resolve_schema(db, ConfiguredDefault, TRUE, t), LAMBDA r :
      IF ~r.ok THEN ApiOutcome(r.pg, r.err, << >>, r.stmts)
      ELSE With(PostgresListSources(r.pg, t), LAMBDA l :
             ApiOutcome(l.pg, "", r.schema, r.stmts \o l.stmts)))

\* the INSERT .. ON CONFLICT(id) DO UPDATE of create_source: label, kind,
\* description, enabled and updated_at are taken from the request
PgCreateSourceUpsert(rows, sid, t) == ensure_source(rows, sid, sid, t)

\* UPDATE public.sources SET is_default=0;
\* UPDATE public.sources SET is_default=1, updated_at=.. WHERE id=sid
PgMakeDefault(rows, sid, t) ==
    { IF r.id = sid THEN [r EXCEPT !.is_default = 1, !.updated_at = t] ELSE r :
      r \in ClearDefault(rows) }

\* POST /sources on the relational backend
PgCreateSource(db, source_id, make_default, t) ==
    With(resolve_schema(db, Sid(source_id), TRUE, t), LAMBDA r :
      IF ~r.ok THEN ApiOutcome(r.pg, r.err, << >>, r.stmts)
      ELSE With(PgCreateSourceUpsert(r.pg.sources, Sid(source_id), t), LAMBDA s1 :
             ApiOutcome([r.pg EXCEPT !.sources =
                            IF make_default THEN PgMakeDefault(s1, Sid(source_id), t)
                            ELSE s1],
                        "", r.schema, Append(r.stmts, Stmt("sources_upsert", Sid(source_id))))))

\* PATCH /sources/{source_id} on the relational backend
PgPatchSource(db, source_id, enabled, t) ==
    IF ~db.global THEN ApiOutcome(db, "DriverError", << >>, << >>)
    ELSE IF ~(\E r \in db.sources : r.id = Sid(source_id))
         THEN ApiOutcome(db, "HTTP404", << >>, << Stmt("sources_select", Sid(source_id)) >>)
    ELSE ApiOutcome([db EXCEPT !.sources = PatchRows(@, Sid(source_id), enabled, t)],
                    "", << >>,
                    << Stmt("sources_select", Sid(source_id)),
                       Stmt("sources_update", Sid(source_id)) >>)

\* UPDATE public.sources SET is_default=0 WHERE id<>sid
ClearOtherDefaults(rows, sid) ==
    { IF r.id # sid THEN [r EXCEPT !.is_default = 0] ELSE r : r \in rows }

\* POST /sources/{source_id}/activate on the relational backend
PgActivateSource(db, source_id, t) ==
    With(resolve_schema(db, Sid(source_id), TRUE, t), LAMBDA r :
      IF ~r.ok THEN ApiOutcome(r.pg, r.err, << >>, r.stmts)
      ELSE ApiOutcome([r.pg EXCEPT !.sources =
                          ClearOtherDefaults(PgDefaultUpsert(@, Sid(source_id), t),
                                             Sid(source_id))],
                      "", r.schema, Append(r.stmts, Stmt("sources_upsert", Sid(source_id)))))

\* DROP SCHEMA IF EXISTS "<schema>" CASCADE
DropSchema(schemas, schema) ==
    IF DOMAIN schemas \ { schema } = {} THEN << >>
    ELSE [n \in DOMAIN schemas \ { schema } |-> schemas[n]]

\* delete_source once the Source row was found and is not the default: the
\* statements that follow the resolve_schema call that came back with r
\* (r.ok is false when it raised, which the handler turns into schema = None)
PgDeleteResolved(db, sid, r) ==
    IF ~r.ok
    THEN ApiOutcome([db EXCEPT !.sources = { s \in @ : s.id # sid }], "", << >>,
                    Append(r.stmts, Stmt("sources_delete", sid)))
    ELSE IF ~(r.schema \in DOMAIN db.schemas
              /\ "videos" \in db.schemas[r.schema].tables
              /\ "source_id" \in db.schemas[r.schema].videoCols)
         THEN ApiOutcome(db, "DriverError", << >>, Append(r.stmts, Stmt("count_videos", r.schema)))
    ELSE IF \E v \in db.schemas[r.schema].rows : v.source_id = sid
         THEN ApiOutcome(db, "HTTP400", << >>, Append(r.stmts, Stmt("count_videos", r.schema)))
    ELSE ApiOutcome([db EXCEPT !.schemas = DropSchema(@, r.schema),
                               !.registry = { m \in @ : m.source_id # sid },
                               !.sources = { s \in @ : s.id # sid }],
                    "", r.schema,
                    r.stmts \o << Stmt("count_videos", r.schema),
                                  Stmt("drop_schema", r.schema),
                                  Stmt("registry_delete", sid),
                                  Stmt("sources_delete", sid) >>)

\* DELETE /sources/{source_id} on the relational backend
PgDeleteSource(db, source_id, t) ==
    IF Sid(source_id) = ConfiguredDefault THEN ApiOutcome(db, "HTTP400", << >>, << >>)
    ELSE IF ~db.global THEN ApiOutcome(db, "DriverError", << >>, << >>)
    ELSE IF ~(\E r \in db.sources : r.id = Sid(source_id))
         THEN ApiOutcome(db, "HTTP404", << >>, << >>)
    ELSE IF \E r \in db.sources : r.id = Sid(source_id) /\ r.is_default = 1
         THEN ApiOutcome(db, "HTTP400", << >>, << >>)
    ELSE PgDeleteResolved(db, Sid(source_id), resolve_schema(db, Sid(source_id), FALSE, t))

\* source ids handed to the source registry operations
SourceIds == { SrcA2, DefaultSourceId }
\* the payload handed to write_item between them
SourcePayloads == { [id |-> IdX, caption |-> CapU, bookmarked |-> 0] }

SqAppStart ==
    /\ IsSqlite
    /\ \E t \in Clock :
         /\ now' = t
         /\ \E r \in { SqliteAppStart(sq, t) } :
              SqCall("app_start", settings.default_source, << >>, NoPayload, r)

SqListSources ==
    /\ IsSqlite
    /\ \E t \in Clock :
         /\ now' = t
         /\ \E r \in { SqliteListSources(sq, t) } :
              SqCall("list_sources", settings.default_source, << >>, NoPayload, r)

SqCreateSource(raw, make_default) ==
    /\ IsSqlite
    /\ \E t \in Clock :
         /\ now' = t
         /\ \E r \in { SqliteCreateSource(sq, raw, make_default, t) } :
              SqCall("create_source", raw, << >>, NoPayload, r)

SqPatchSource(raw, enabled) ==
    /\ IsSqlite
    /\ \E t \in Clock :
         /\ now' = t
         /\ \E r \in { SqlitePatchSource(sq, raw, enabled, t) } :
              SqCall("patch_source", raw, << >>, NoPayload, r)

SqActivateSource(raw) ==
    /\ IsSqlite
    /\ \E t \in Clock :
         /\ now' = t
         /\ \E r \in { SqliteActivateSource(sq, raw, t) } :
              SqCall("activate_source", raw, << >>, NoPayload, r)

SqDeleteSource(raw) ==
    /\ IsSqlite
    /\ UNCHANGED now
    /\ \E r \in { SqliteDeleteSource(sq, raw) } :
         SqCall("delete_source", raw, << >>, NoPayload, r)

PgAppStartCall ==
    /\ IsPostgres
    /\ \E t \in Clock :
         /\ now' = t
         /\ \E r \in { PgAppStart(pg, t) } :
              PgCall("app_start", settings.default_source, TRUE, << >>, NoPayload, r)

PgListSources ==
    /\ IsPostgres
    /\ \E t \in Clock :
         /\ now' = t
         /\ \E r \in { PostgresListSources(pg, t) } :
              PgCall("list_sources", settings.default_source, FALSE, << >>, NoPayload, r)

PgCreateSourceCall(raw, make_default) ==
    /\ IsPostgres
    /\ \E t \in Clock :
         /\ now' = t
         /\ \E r \in { PgCreateSource(pg, raw, make_default, t) } :
              PgCall("create_source", raw, TRUE, << >>, NoPayload, r)

PgPatchSourceCall(raw, enabled) ==
    /\ IsPostgres
    /\ \E t \in Clock :
         /\ now' = t
         /\ \E r \in { PgPatchSource(pg, raw, enabled, t) } :
              PgCall("patch_source", raw, FALSE, << >>, NoPayload, r)

PgActivateSourceCall(raw) ==
    /\ IsPostgres
    /\ \E t \in Clock :
         /\ now' = t
         /\ \E r \in { PgActivateSource(pg, raw, t) } :
              PgCall("activate_source", raw, TRUE, << >>, NoPayload, r)

PgDeleteSourceCall(raw) ==
    /\ IsPostgres
    /\ UNCHANGED now
    /\ \E r \in { PgDeleteSource(pg, raw, now) } :
         PgCall("delete_source", raw, FALSE, << >>, NoPayload, r)

\* a database that a process of profile #2 has provisioned and written to
OtherProfilePg ==
    [global |-> TRUE, registry |-> { RegistryRow(SrcA2, UnifiedSchema) },
     sources |-> { SourceRow(SrcA2, SrcA2, 0, 0) },
     schemas |-> OneSchema(UnifiedSchema,
                   [ProvisionedLayout EXCEPT !.rows =
                      { ItemRow(SrcA2, IdX, [id |-> IdX, caption |-> CapV, bookmarked |-> 1], 0) }])]

\* a deployment of either backend under the default settings, on an empty
\* store or on the database of another profile
InitSources ==
    /\ settings \in DefaultSettings
    /\ now = 0
    /\ sq = [sources |-> {}, videos |-> {}]
    /\ pg \in (IF settings.mode = "POSTGRES_PRIMARY" THEN { FreshPg, OtherProfilePg }
               ELSE { FreshPg })
    /\ last = [op |-> "construct", backend |-> get_repository(settings),
               raw |-> << >>, sid |-> << >>, create |-> FALSE, item_id |-> << >>,
               payload |-> NoPayload] @@ NoResult
    /\ procs = [p \in Procs |-> IdleProc]

\* SpecSources: the source registry operations and init_schema
NextSources ==
    \/ SqAppStart
    \/ SqListSources
    \/ \E raw \in SourceIds, make_default \in BOOLEAN : SqCreateSource(raw, make_default)
    \/ \E raw \in SourceIds, enabled \in PatchValues : SqPatchSource(raw, enabled)
    \/ \E raw \in SourceIds : SqActivateSource(raw)
    \/ \E raw \in SourceIds : SqDeleteSource(raw)
    \/ \E raw \in SourceIds : SqInitSchema(raw)
    \/ PgAppStartCall
    \/ PgListSources
    \/ \E raw \in SourceIds, make_default \in BOOLEAN : PgCreateSourceCall(raw, make_default)
    \/ \E raw \in SourceIds, enabled \in PatchValues : PgPatchSourceCall(raw, enabled)
    \/ \E raw \in SourceIds : PgActivateSourceCall(raw)
    \/ \E raw \in SourceIds : PgDeleteSourceCall(raw)
    \/ \E raw \in SourceIds : PgInitSchema(raw)

SpecSources == InitSources /\ [][NextSources]_vars

\* SpecOwners: registration, writes and deletion of sources that own items
NextOwners ==
    \/ SqAppStart
    \/ \E raw \in SourceIds : SqInitSchema(raw)
    \/ \E raw \in SourceIds, payload \in SourcePayloads : SqWriteItem(raw, payload)
    \/ \E raw \in SourceIds : SqDeleteSource(raw)
    \/ PgAppStartCall
    \/ \E raw \in SourceIds : PgInitSchema(raw)
    \/ \E raw \in SourceIds, payload \in SourcePayloads : PgWriteItem(raw, payload)
    \/ \E raw \in SourceIds : PgDeleteSourceCall(raw)

SpecOwners == InitSources /\ [][NextOwners]_vars

(***************************************************************************)
(* The pure string functions, applied to strings drawn from a bounded set  *)
(***************************************************************************)
\* the longest string drawn
MaxLen == 3
\* a letter, a digit, the three punctuation marks a source id may keep,
\* white space and a character of an injection payload
Alphabet == { "a", "1", "_", "-", ".", " ", ";" }

RECURSIVE StringsUpTo(_)
StringsUpTo(n) ==
    IF n = 0 THEN { << >> }
    ELSE StringsUpTo(n - 1)
         \cup { Append(s, c) : s \in { x \in StringsUpTo(n - 1) : Len(x) = n - 1 },
                               c \in Alphabet }

\* "assets_1;DROP_SCHEMA", the payload of test_wrong_schema_injection_rejected
InjectionId ==
    << "a","s","s","e","t","s","_","1",";","D","R","O","P","_","S","C","H","E","M","A" >>

\* the arguments handed to the functions: None, every string over the
\* alphabet up to MaxLen, and the injection payload
InputStrings == StringsUpTo(MaxLen) \cup { NoneStr, InjectionId }

\* the fallbacks handed to sanitize_source_id
Fallbacks == { DefaultStr, SrcA1, NoneStr, << >>, << " ","b","!"," " >> }

\* PostgresRepository.schema_name_for_source(source_id), computed on the
\* string itself
DeriveSchemaName(source_id) ==
    safe_ident(CanonicalUnder(settings.prefix,
                              sanitize_source_id(source_id, settings.default_source)))

\* _ensure_schema(router, profile, server) of the import wizard, for
\* profile.schema_name = name: the schema is looked up with a bound
\* parameter and, when absent, created with the name interpolated
WizardEnsureSchema(db, name) ==
    IF name \in DOMAIN db.schemas
    THEN [pg |-> db, ok |-> TRUE, stmts |-> << Stmt("schemata_select", name) >>]
    ELSE IF name = << >>
    THEN [pg |-> db, ok |-> FALSE,
          stmts |-> << Stmt("schemata_select", name), Stmt("create_schema", name) >>]
    ELSE [pg |-> [db EXCEPT !.schemas = DDLCreate(@, name, [kind |-> "schema"])],
          ok |-> TRUE,
          stmts |-> << Stmt("schemata_select", name), Stmt("create_schema", name) >>]

\* one function is applied to one drawn argument
InitStrings ==
    /\ \E f \in Fallbacks :
         settings = [mode |-> "POSTGRES_PRIMARY", prefix |-> SxPrefix, guard |-> TRUE,
                     profile_index |-> 1, default_source |-> f]
    /\ now = 0
    /\ sq = [sources |-> {}, videos |-> {}]
    /\ pg = FreshPg
    /\ \E x \in InputStrings :
         last = [op |-> "input", arg |-> x, ok |-> TRUE, out |-> << >>, stmts |-> << >>]
    /\ procs = [p \in Procs |-> IdleProc]

ApplySafeIdent ==
    /\ last.op = "input"
    /\ last' = [op |-> "safe_ident", arg |-> last.arg, ok |-> safe_ident(last.arg).ok,
                out |-> safe_ident(last.arg).v, stmts |-> << >>]
    /\ UNCHANGED << settings, now, sq, pg, procs >>

ApplySanitize ==
    /\ last.op = "input"
    /\ last' = [op |-> "sanitize_source_id", arg |-> last.arg, ok |-> TRUE,
                out |-> sanitize_source_id(last.arg, settings.default_source),
                stmts |-> << >>]
    /\ UNCHANGED << settings, now, sq, pg, procs >>

ApplySchemaName ==
    /\ last.op = "input"
    /\ last' = [op |-> "schema_name_for_source", arg |-> last.arg,
                ok |-> DeriveSchemaName(last.arg).ok,
                out |-> DeriveSchemaName(last.arg).v, stmts |-> << >>]
    /\ UNCHANGED << settings, now, sq, pg, procs >>

ApplyEnsureSchema ==
    /\ last.op = "input"
    /\ last.arg # NoneStr
    /\ \E r \in { WizardEnsureSchema(pg, last.arg) } :
         /\ pg' = r.pg
         /\ last' = [op |-> "_ensure_schema", arg |-> last.arg, ok |-> r.ok,
                     out |-> << >>, stmts |-> r.stmts]
    /\ UNCHANGED << settings, now, sq, procs >>

NextStrings ==
    \/ ApplySafeIdent
    \/ ApplySanitize
    \/ ApplySchemaName
    \/ ApplyEnsureSchema

SpecStrings == InitStrings /\ [][NextStrings]_vars

(***************************************************************************)
(* The sqlite-style connection wrapper of the Postgres backend             *)
(* (CompatConnection).  A statement is the sequence of its lexical pieces: *)
(* the characters "?", ":", "'", a letter and a digit, and the two words   *)
(* the catalog probe is recognised by.                                     *)
(***************************************************************************)
\* the longest statement drawn
MaxSqlLen == 4
SqliteMaster == "sqlite_master"
VideosFts == "videos_fts"
SqlWords == { SqliteMaster, VideosFts }
SqlAlphabet == { "?", ":", "'", "n", "1" } \cup SqlWords

RECURSIVE StatementsUpTo(_)
StatementsUpTo(n) ==
    IF n = 0 THEN { << >> }
    ELSE StatementsUpTo(n - 1)
         \cup { Append(s, c) : s \in { x \in StatementsUpTo(n - 1) : Len(x) = n - 1 },
                               c \in SqlAlphabet }

\* [A-Za-z_] and [A-Za-z0-9_] on the pieces of a statement
IsNameStart(c) == c \in SqlWords \/ IsLetter(c)
IsNameChar(c) == IsNameStart(c) \/ IsDigit(c)

\* `word in sql`: a word of SqlWords is one piece of the text
InSql(word, sql) == \E i \in 1..Len(sql) : sql[i] = word

\* the parameters of one execution: a positional sequence (kind "seq",
\* no names) or a Mapping (kind "map") from names to values
NoParams == [kind |-> "seq", names |-> << >>, vals |-> << >>]
ShimParams ==
    { NoParams,
      [kind |-> "seq", names |-> << >>, vals |-> << "v1" >>],
      [kind |-> "map", names |-> << "n" >>, vals |-> << "v1" >>] }
\* seq_of_params of executemany: no row, one row, two rows of one kind
ParamBatches ==
    { << >> }
    \cup { << p >> : p \in ShimParams }
    \cup { << [kind |-> "seq", names |-> << >>, vals |-> << "v1" >>],
              [kind |-> "seq", names |-> << >>, vals |-> << "v2" >>] >>,
           << [kind |-> "map", names |-> << "n" >>, vals |-> << "v1" >>],
              [kind |-> "map", names |-> << "n" >>, vals |-> << "v2" >>] >> }

\* the first position at or after i that does not continue a name
RECURSIVE NameEnd(_, _)
NameEnd(s, i) ==
    IF i <= Len(s) /\ IsNameChar(s[i]) THEN NameEnd(s, i + 1) ELSE i

\* re.sub(r"(?<!:):([A-Za-z_][A-Za-z0-9_]*)", r"%(\1)s", s) from position i
RECURSIVE SubNamed(_, _)
SubNamed(s, i) ==
    IF i > Len(s) THEN << >>
    ELSE IF /\ s[i] = ":"
            /\ (i = 1 \/ s[i - 1] # ":")
            /\ i < Len(s)
            /\ IsNameStart(s[i + 1])
         THEN << "%(" >> \o SubSeq(s, i + 1, NameEnd(s, i + 1) - 1) \o << ")s" >>
              \o SubNamed(s, NameEnd(s, i + 1))
         ELSE << s[i] >> \o SubNamed(s, i + 1)

\* s.replace("?", "%s")
ReplaceQuestionMarks(s) == [i \in 1..Len(s) |-> IF s[i] = "?" THEN "%s" ELSE s[i]]

\* CompatConnection._adapt_sql(sql, params)
_adapt_sql(sql, params) ==
    IF params.kind = "map" THEN SubNamed(sql, 1)
    ELSE IF InSql("?", sql) THEN ReplaceQuestionMarks(sql)
    ELSE sql

\* _FakeCursor(one, many); kind "driver" is a CompatCursor around the
\* driver's cursor, whose execute raised err ("" when it returned)
_FakeCursor(one, many) == [kind |-> "fake", one |-> one, many |-> many, err |-> ""]
NoCursor == [kind |-> "none", one |-> NoneStr, many |-> << >>, err |-> ""]

\* cur.execute(statement, params) of the driver: Postgres has no relation
\* sqlite_master, a statement that names it raises; rows are not modelled
DriverCursor(statement) ==
    [kind |-> "driver", one |-> NoneStr, many |-> << >>,
     err |-> IF InSql(SqliteMaster, statement) THEN "UndefinedTable" ELSE ""]

\* one statement handed to the driver, with its parameters
Sent(statement, params) == [sql |-> statement, params |-> params]

\* execute without the probe branch
ExecuteAlwaysDriver(sql, params) ==
    [cursor |-> DriverCursor(_adapt_sql(sql, params)),
     sent |-> << Sent(_adapt_sql(sql, params), params) >>]

\* CompatConnection.execute(sql, params)
execute(sql, params) ==
    IF InSql(SqliteMaster, sql) /\ InSql(VideosFts, sql)
    THEN [cursor |-> _FakeCursor(NoneStr, << >>), sent |-> << >>]
    ELSE [cursor |-> DriverCursor(_adapt_sql(sql, params)),
          sent |-> << Sent(_adapt_sql(sql, params), params) >>]

\* CompatConnection.executemany(sql, seq_of_params): the statement is
\* adapted once, for the first row, and executed for every row
executemany(sql, seq_of_params) ==
    IF seq_of_params = << >>
    THEN [cursor |-> DriverCursor(<< >>), sent |-> << >>]
    ELSE [cursor |-> DriverCursor(_adapt_sql(sql, seq_of_params[1])),
          sent |-> [i \in 1..Len(seq_of_params) |->
                      Sent(_adapt_sql(sql, seq_of_params[1]), seq_of_params[i])]]

\* one statement and its parameters are drawn, then executed once
InitShim ==
    /\ settings = [mode |-> "POSTGRES_PRIMARY", prefix |-> SxPrefix, guard |-> TRUE,
                   profile_index |-> 1, default_source |-> DefaultStr]
    /\ now = 0
    /\ sq = [sources |-> {}, videos |-> {}]
    /\ pg = FreshPg
    /\ \E s \in StatementsUpTo(MaxSqlLen), b \in ParamBatches :
         last = [op |-> "input", sql |-> s, batch |-> b, sent |-> << >>,
                 cursor |-> NoCursor]
    /\ procs = [p \in Procs |-> IdleProc]

ShimExecute ==
    /\ last.op = "input"
    /\ Len(last.batch) = 1
    /\ last' = [op |-> "execute", sql |-> last.sql, batch |-> last.batch,
                sent |-> execute(last.sql, last.batch[1]).sent,
                cursor |-> execute(last.sql, last.batch[1]).cursor]
    /\ UNCHANGED << settings, now, sq, pg, procs >>

ShimExecuteMany ==
    /\ last.op = "input"
    /\ last' = [op |-> "executemany", sql |-> last.sql, batch |-> last.batch,
                sent |-> executemany(last.sql, last.batch).sent,
                cursor |-> executemany(last.sql, last.batch).cursor]
    /\ UNCHANGED << settings, now, sq, pg, procs >>

NextShim ==
    \/ ShimExecute
    \/ ShimExecuteMany

SpecShim == InitShim /\ [][NextShim]_vars

(***************************************************************************)
(* Rows read back through the wrapper.  The driver is opened with          *)
(* row_factory=dict_row (PostgresRepository._connect), so its rows are     *)
(* dicts: a dict is the sequence of its (key, value) pairs in order.       *)
(***************************************************************************)
\* the two statements of the round trip, as the caller writes them
InsertT == << "INSERT INTO t(id, v) VALUES(", "?", ", ", "?", ")" >>
SelectV == << "SELECT v FROM t WHERE id=", "?" >>
ShimIds == { "x", "y", "z" }
ShimVals == { "v1", "v2" }
PosParams(vals) == [kind |-> "seq", names |-> << >>, vals |-> vals]

\* a database that holds the table t(id PRIMARY KEY, v)
TableDb(rows) == [global |-> FALSE, registry |-> {}, sources |-> {},
                  schemas |-> << >>, t |-> rows]

RECURSIVE SetToSeq(_)
SetToSeq(S) ==
    IF S = {} THEN << >>
    ELSE With(CHOOSE x \in S : TRUE, LAMBDA x : << x >> \o SetToSeq(S \ { x }))

\* cur.execute(statement, params) of the driver on table t: the driver
\* only knows %s; the rows it yields are dict rows
DriverExecute(db, statement, params) ==
    IF statement = << "INSERT INTO t(id, v) VALUES(", "%s", ", ", "%s", ")" >>
       /\ Len(params.vals) = 2
    THEN IF \E r \in db.t : r.id = params.vals[1]
         THEN [db |-> db, err |-> "UniqueViolation", rows |-> << >>, rowcount |-> -1]
         ELSE [db |-> [db EXCEPT !.t = @ \cup { [id |-> params.vals[1], v |-> params.vals[2]] }],
               err |-> "", rows |-> << >>, rowcount |-> 1]
    ELSE IF statement = << "SELECT v FROM t WHERE id=", "%s" >> /\ Len(params.vals) = 1
    THEN [db |-> db, err |-> "",
          rows |-> SetToSeq({ << << "v", r.v >> >> : r \in { q \in db.t : q.id = params.vals[1] } }),
          rowcount |-> Cardinality({ q \in db.t : q.id = params.vals[1] })]
    ELSE [db |-> db, err |-> "SyntaxError", rows |-> << >>, rowcount |-> -1]

\* CompatRow(data): _keys and _vals in the order of the dict
CompatRow(data) ==
    [data |-> data,
     keys |-> [i \in 1..Len(data) |-> data[i][1]],
     vals |-> [i \in 1..Len(data) |-> data[i][2]]]

\* a dict row of the driver handed to the caller as it is
RawRow(data) == [data |-> data, keys |-> << >>, vals |-> << >>]

\* row[key] for an int key: self._vals[key]
RowByIndex(row, k) ==
    IF k + 1 \in 1..Len(row.vals) THEN [ok |-> TRUE, v |-> row.vals[k + 1]]
    ELSE [ok |-> FALSE, v |-> "IndexError"]

\* row[key] for a name: self._data[key]
RowByName(row, name) ==
    IF \E i \in 1..Len(row.data) : row.data[i][1] = name
    THEN [ok |-> TRUE,
          v |-> row.data[CHOOSE i \in 1..Len(row.data) : row.data[i][1] = name][2]]
    ELSE [ok |-> FALSE, v |-> "KeyError"]

\* fetchall that hands the driver's rows on unwrapped
RawFetchall(rows) == [i \in 1..Len(rows) |-> RawRow(rows[i])]

\* CompatCursor.fetchall(): every Mapping row is wrapped in a CompatRow
CompatFetchall(rows) == [i \in 1..Len(rows) |-> CompatRow(rows[i])]

\* CompatCursor.fetchone(): None, or the first row wrapped
CompatFetchone(rows) == IF rows = << >> THEN << >> ELSE << CompatRow(rows[1]) >>

\* CompatConnection.execute(sql, params) on the database db, then
\* fetchone / fetchall / rowcount of the cursor it returns
ExecuteOn(db, sql, params) ==
    With(execute(sql, params), LAMBDA e :
      IF e.sent = << >>
      THEN [db |-> db, err |-> "", sent |-> << >>, one |-> << >>, all |-> << >>,
            rowcount |-> -1]
      ELSE With(DriverExecute(db, e.sent[1].sql, e.sent[1].params), LAMBDA d :
             [db |-> d.db, err |-> d.err, sent |-> e.sent,
              one |-> CompatFetchone(d.rows), all |-> CompatFetchall(d.rows),
              rowcount |-> d.rowcount]))

\* the members a caller finds on a cursor: _FakeCursor defines fetchone and
\* fetchall, CompatCursor defines rowcount, fetchone and fetchall
CursorMembers(cursor) ==
    IF cursor.kind = "fake" THEN { "fetchone", "fetchall" }
    ELSE { "rowcount", "fetchone", "fetchall" }

InitRoundTrip ==
    /\ settings = [mode |-> "POSTGRES_PRIMARY", prefix |-> SxPrefix, guard |-> TRUE,
                   profile_index |-> 1, default_source |-> DefaultStr]
    /\ now = 0
    /\ sq = [sources |-> {}, videos |-> {}]
    /\ pg = TableDb({})
    /\ last = [op |-> "connect", id |-> "", err |-> "", sent |-> << >>,
               one |-> << >>, all |-> << >>, rowcount |-> -1]
    /\ procs = [p \in Procs |-> IdleProc]

\* conn.execute("INSERT INTO t(id, v) VALUES(?, ?)", (id, v))
ShimInsert(id, v) ==
    /\ \E r \in { ExecuteOn(pg, InsertT, PosParams(<< id, v >>)) } :
         /\ pg' = r.db
         /\ last' = [op |-> "insert", id |-> id, err |-> r.err, sent |-> r.sent,
                     one |-> r.one, all |-> r.all, rowcount |-> r.rowcount]
    /\ UNCHANGED << settings, now, sq, procs >>

\* conn.execute("SELECT v FROM t WHERE id=?", (id,)) and the reads of its cursor
ShimSelect(id) ==
    /\ \E r \in { ExecuteOn(pg, SelectV, PosParams(<< id >>)) } :
         /\ pg' = r.db
         /\ last' = [op |-> "select", id |-> id, err |-> r.err, sent |-> r.sent,
                     one |-> r.one, all |-> r.all, rowcount |-> r.rowcount]
    /\ UNCHANGED << settings, now, sq, procs >>

NextRoundTrip ==
    \/ \E id \in ShimIds, v \in ShimVals : ShimInsert(id, v)
    \/ \E id \in ShimIds : ShimSelect(id)

SpecRoundTrip == InitRoundTrip /\ [][NextRoundTrip]_vars

(***************************************************************************)
(* The HTTP API on the relational backend (create_app of                   *)
(* packages/sx_db/api.py): source_context_middleware, then the handler.   *)
(* A response is its status code, the ok flag of its body, the source id   *)
(* its detail names, the item it carries and the error behind it.          *)
(***************************************************************************)
\* no X-SX-Source-ID header and no source_id query parameter
NoHeader == NoneStr
RequestSources == { NoHeader, SrcA1, SrcA2 }

\* Settings of the deployments the API is started under; dsn says whether
\* SX_POSTGRES_DSN is set
ApiSettings ==
    { [mode |-> "POSTGRES_PRIMARY", prefix |-> p, guard |-> TRUE, profile_index |-> 1,
       default_source |-> SrcA1, dsn |-> d] : p \in Prefixes, d \in BOOLEAN }

\* the errors that say the tenant of a request could not be resolved
TenantErrors == { "SchemaNotMapped", "SchemaIndexMismatch", "ValueError", "NoDsn" }

Response(status, ok, names, err, rows) ==
    [status |-> status, ok |-> ok, names |-> names, err |-> err, rows |-> rows]

\* repository.list_sources().get("default_source_id") on the rows of
\* public.sources
ListedDefault(rows) ==
    IF DefaultRows(rows) # {} THEN (CHOOSE r \in DefaultRows(rows) : TRUE).id
    ELSE ConfiguredDefault

\* the source id source_context_middleware gives the request, and the
\* database after the list_sources() call it makes when none was sent
\* (an exception of list_sources falls back to the configured default)
MiddlewareSource(db, hdr, t) ==
    IF hdr # NoHeader THEN [sid |-> Sid(hdr), pg |-> db]
    ELSE IF ~settings.dsn THEN [sid |-> ConfiguredDefault, pg |-> db]
    ELSE [sid |-> Sid(ListedDefault(db.sources)), pg |-> PostgresListSources(db, t).pg]

\* repository.resolve_schema(source_id, create_if_missing) of a repository
\* that may have no DSN: _connect raises before anything is read
ResolveWithDsn(db, sid, create_if_missing, t) ==
    IF ~settings.dsn THEN Outcome(db, "NoDsn", << >>, << >>)
    ELSE resolve_schema(db, sid, create_if_missing, t)

\* source_context_middleware: the response it returns itself (status 0
\* when it calls the handler), the source id and the database it leaves
Middleware(db, hdr, t) ==
    With(MiddlewareSource(db, hdr, t), LAMBDA m :
      With(ResolveWithDsn(m.pg, m.sid, FALSE, t), LAMBDA r :
        IF ~r.ok
        THEN [sid |-> m.sid, pg |-> r.pg, schema |-> << >>,
              resp |-> Response(400, FALSE, m.sid, r.err, {})]
        ELSE [sid |-> m.sid, pg |-> r.pg, schema |-> r.schema,
              resp |-> Response(0, TRUE, << >>, "", {})]))

\* an exception no handler catches: the server answers 500
Unhandled(err) == Response(500, FALSE, << >>, err, {})

\* GET /health
HandleHealth(db, sid) == [pg |-> db, resp |-> Response(200, TRUE, sid, "", {})]

\* GET /items/{item_id}: _conn() is connection_for_source(_CTX_SOURCE_ID.get()),
\* the source id of the statement is request.state.sx_source_id
HandleGetItem(db, ctx_sid, state_sid, item_id, t) ==
    With(connection_for_source(db, ctx_sid, t), LAMBDA c :
      With(GetItemOn(c @@ [rows |-> {}, target |-> {}], state_sid, item_id), LAMBDA g :
        IF ~g.ok THEN [pg |-> g.pg, resp |-> Unhandled(g.err)]
        ELSE IF g.rows = {} THEN [pg |-> g.pg, resp |-> Response(404, FALSE, << >>, "", {})]
        ELSE [pg |-> g.pg, resp |-> Response(200, TRUE, state_sid, "", g.rows)]))

\* POST /admin/bootstrap/schema with payload.source_id = body
HandleBootstrap(db, body, t) ==
    With(ResolveWithDsn(db, Sid(body), TRUE, t), LAMBDA r :
      IF ~r.ok THEN [pg |-> r.pg, resp |-> Unhandled(r.err)]
      ELSE [pg |-> r.pg, resp |-> Response(200, TRUE, Sid(body), "", {})])

\* one request, from the middleware to the response
ApiCall(op, hdr, body, m, h) ==
    /\ pg' = h.pg
    /\ last' = [op |-> op, hdr |-> hdr, body |-> body, sid |-> m.sid,
                by |-> (IF m.resp.status # 0 THEN "middleware" ELSE "handler"),
                resp |-> h.resp]
    /\ UNCHANGED << settings, sq, procs >>

\* the middleware's own answer, or the handler's
Served(m, h) == IF m.resp.status # 0 THEN [pg |-> m.pg, resp |-> m.resp] ELSE h

InitApi ==
    /\ settings \in ApiSettings
    /\ now = 0
    /\ sq = [sources |-> {}, videos |-> {}]
    /\ pg \in PgDatabases(settings.prefix)
    /\ last = [op |-> "construct", hdr |-> NoHeader, body |-> << >>, sid |-> << >>,
               by |-> "", resp |-> Response(0, TRUE, << >>, "", {})]
    /\ procs = [p \in Procs |-> IdleProc]

\* create_app: the bootstrap of the source registry, exceptions swallowed
ApiStart ==
    /\ last.op = "construct"
    /\ \E t \in Clock :
         /\ now' = t
         /\ pg' = (IF settings.dsn THEN PgAppStart(pg, t).pg ELSE pg)
    /\ last' = [last EXCEPT !.op = "create_app"]
    /\ UNCHANGED << settings, sq, procs >>

ApiHealth(hdr) ==
    /\ last.op # "construct"
    /\ \E t \in Clock :
         /\ now' = t
         /\ \E m \in { Middleware(pg, hdr, t) } :
              ApiCall("health", hdr, << >>, m, Served(m, HandleHealth(m.pg, m.sid)))

ApiGetItem(hdr, item_id) ==
    /\ last.op # "construct"
    /\ \E t \in Clock :
         /\ now' = t
         /\ \E m \in { Middleware(pg, hdr, t) } :
              ApiCall("get_item", hdr, item_id, m,
                      Served(m, HandleGetItem(m.pg, m.sid, m.sid, item_id, t)))

ApiBootstrapSchema(hdr, body) ==
    /\ last.op # "construct"
    /\ \E t \in Clock :
         /\ now' = t
         /\ \E m \in { Middleware(pg, hdr, t) } :
              ApiCall("bootstrap_schema", hdr, body, m,
                      Served(m, HandleBootstrap(m.pg, body, t)))

NextApi ==
    \/ ApiStart
    \/ \E hdr \in RequestSources : ApiHealth(hdr)
    \/ \E hdr \in RequestSources : ApiGetItem(hdr, IdX)
    \/ \E hdr \in RequestSources, body \in { SrcA1, SrcA2 } : ApiBootstrapSchema(hdr, body)

SpecApi == InitApi /\ [][NextApi]_vars

(***************************************************************************)
(* Requests served at the same time.  Each request runs in its own         *)
(* context: _CTX_SOURCE_ID is a ContextVar, set by the middleware of the   *)
(* request and read by _conn() in its handler; request.state belongs to    *)
(* the request; every _conn() call opens a connection of its own.          *)
(***************************************************************************)
\* two provisioned tenants that both hold an item with id x
TwoTenantsPg ==
    [global |-> TRUE,
     registry |-> { RegistryRow(SrcA1, CanonicalUnder(SxPrefix, SrcA1)),
                    RegistryRow(SrcA2, CanonicalUnder(SxPrefix, SrcA2)) },
     sources |-> { SourceRow(SrcA1, SrcA1, 1, 0), SourceRow(SrcA2, SrcA2, 0, 0) },
     schemas |->
       OneSchema(CanonicalUnder(SxPrefix, SrcA1),
                 [ProvisionedLayout EXCEPT !.rows =
                    { ItemRow(SrcA1, IdX, [id |-> IdX, caption |-> CapU, bookmarked |-> 0], 0) }])
       @@ OneSchema(CanonicalUnder(SxPrefix, SrcA2),
                 [ProvisionedLayout EXCEPT !.rows =
                    { ItemRow(SrcA2, IdX, [id |-> IdX, caption |-> CapV, bookmarked |-> 1], 0) }])]

\* a request GET /items/{item} with X-SX-Source-ID: hdr that has not reached
\* the middleware; ctx is _CTX_SOURCE_ID in the context of the request
NewRequest(hdr, item) ==
    [pc |-> "new", hdr |-> hdr, item |-> item, sid |-> << >>, ctx |-> DefaultStr,
     schema |-> << >>, search_path |-> << >>, resp |-> Response(0, TRUE, << >>, "", {})]

\* _CTX_SOURCE_ID.get() in the handler of request p
CtxGetShared(ps, l, p) == l.ctx

CtxGet(ps, l, p) == ps[p].ctx

InitRequests ==
    /\ settings = [mode |-> "POSTGRES_PRIMARY", prefix |-> SxPrefix, guard |-> TRUE,
                   profile_index |-> 0, default_source |-> SrcA1, dsn |-> TRUE]
    /\ now = 0
    /\ sq = [sources |-> {}, videos |-> {}]
    /\ pg = TwoTenantsPg
    /\ last = [op |-> "construct", p |-> 0, ctx |-> DefaultStr]
    /\ procs \in [Procs -> { NewRequest(h, i) : h \in { SrcA1, SrcA2 }, i \in ItemIds }]

\* source_context_middleware of request p up to call_next
ReqMiddleware(p) ==
    /\ procs[p].pc = "new"
    /\ \E m \in { Middleware(pg, procs[p].hdr, now) } :
         /\ pg' = m.pg
         /\ procs' = [procs EXCEPT ![p] =
                        IF m.resp.status # 0
                        THEN [@ EXCEPT !.pc = "responded", !.sid = m.sid, !.resp = m.resp]
                        ELSE [@ EXCEPT !.pc = "handler", !.sid = m.sid, !.ctx = m.sid]]
         /\ last' = [op |-> "middleware", p |-> p,
                     ctx |-> IF m.resp.status # 0 THEN last.ctx ELSE m.sid]
    /\ UNCHANGED << settings, now, sq >>

\* conn = _conn() in get_item of request p
ReqConn(p) ==
    /\ procs[p].pc = "handler"
    /\ \E c \in { connection_for_source(pg, CtxGet(procs, last, p), now) } :
         /\ pg' = c.pg
         /\ procs' = [procs EXCEPT ![p] =
                        IF ~c.ok THEN [@ EXCEPT !.pc = "responded", !.resp = Unhandled(c.err)]
                        ELSE [@ EXCEPT !.pc = "conn", !.schema = c.schema,
                                       !.search_path = c.search_path]]
         /\ last' = [op |-> "conn", p |-> p, ctx |-> last.ctx]
    /\ UNCHANGED << settings, now, sq >>

\* conn.execute("SELECT * FROM videos WHERE id=? AND source_id=?",
\* (item_id, request.state.sx_source_id)) of request p, and its response
ReqExecute(p) ==
    /\ procs[p].pc = "conn"
    /\ \E g \in { GetItemOn(Outcome(pg, "", procs[p].schema, << >>)
                            @@ [search_path |-> procs[p].search_path],
                            procs[p].sid, procs[p].item) } :
         procs' = [procs EXCEPT ![p] =
                     [@ EXCEPT !.pc = "responded",
                               !.resp = IF ~g.ok THEN Unhandled(g.err)
                                        ELSE IF g.rows = {}
                                             THEN Response(404, FALSE, << >>, "", {})
                                        ELSE Response(200, TRUE, procs[p].sid, "", g.rows)]]
    /\ last' = [op |-> "execute", p |-> p, ctx |-> last.ctx]
    /\ UNCHANGED << settings, now, sq, pg >>

\* _CTX_SOURCE_ID.reset(tok_sid) in the finally block of the middleware
ReqReset(p) ==
    /\ procs[p].pc = "responded"
    /\ procs' = [procs EXCEPT ![p] = [@ EXCEPT !.pc = "closed", !.ctx = DefaultStr]]
    /\ last' = [op |-> "reset", p |-> p, ctx |-> DefaultStr]
    /\ UNCHANGED << settings, now, sq, pg >>

NextRequests ==
    \/ \E p \in Procs : ReqMiddleware(p)
    \/ \E p \in Procs : ReqConn(p)
    \/ \E p \in Procs : ReqExecute(p)
    \/ \E p \in Procs : ReqReset(p)

SpecRequests == InitRequests /\ [][NextRequests]_vars

(***************************************************************************)
(* POST /danger/reset (danger_reset).  The store holds videos, user_meta   *)
(* and video_notes rows of two sources.                                    *)
(***************************************************************************)
ResetWord == << "R","E","S","E","T" >>
\* values of payload.confirm
Confirms == { << >>, ResetWord, << "r","e","s","e","t" >>, << " ","R","E","S","E","T"," " >> }

IdY == << "y" >>
UserVersion == "user"
CachedVersion == "v1"

\* the store before any reset: a_1 holds x (bookmarked) and y, a_2 holds x;
\* every item has a user_meta row, and user and cached notes exist
SeededStore ==
    [sources |-> {},
     videos |-> { [source_id |-> SrcA1, id |-> IdX, bookmarked |-> 1],
                  [source_id |-> SrcA1, id |-> IdY, bookmarked |-> 0],
                  [source_id |-> SrcA2, id |-> IdX, bookmarked |-> 1] },
     user_meta |-> { [source_id |-> SrcA1, video_id |-> IdX],
                     [source_id |-> SrcA1, video_id |-> IdY],
                     [source_id |-> SrcA2, video_id |-> IdX] },
     video_notes |-> { [source_id |-> SrcA1, video_id |-> IdX, template_version |-> UserVersion],
                       [source_id |-> SrcA1, video_id |-> IdY, template_version |-> CachedVersion],
                       [source_id |-> SrcA2, video_id |-> IdX, template_version |-> UserVersion] }]

\* the request bodies: apply, confirm, the bookmarked_only filter and the
\* three reset switches
DangerPayloads ==
    [apply : BOOLEAN, confirm : Confirms, bookmarked_only : BOOLEAN,
     reset_user_meta : BOOLEAN, reset_user_notes : BOOLEAN, reset_cached_notes : BOOLEAN]

\* SELECT v.id FROM videos v LEFT JOIN user_meta m .. WHERE v.source_id=? [AND v.bookmarked=1]
DangerSubquery(db, source_id, bookmarked_only) ==
    { v.id : v \in { w \in db.videos : /\ w.source_id = source_id
                                       /\ (bookmarked_only => w.bookmarked = 1) } }

\* the rows the three DELETE statements address
MetaTargets(db, source_id, ids) ==
    { m \in db.user_meta : m.source_id = source_id /\ m.video_id \in ids }
UserNoteTargets(db, source_id, ids) ==
    { n \in db.video_notes : /\ n.source_id = source_id
                             /\ n.template_version = UserVersion
                             /\ n.video_id \in ids }
CachedNoteTargets(db, source_id, ids) ==
    { n \in db.video_notes : /\ n.source_id = source_id
                             /\ n.template_version # UserVersion
                             /\ n.video_id \in ids }

\* the confirmation test of danger_reset: (payload.confirm or "").strip() != "RESET"
Confirmed(payload) == Strip(payload.confirm) = ResetWord

\* danger_reset for the request's source: the store it leaves, the status
\* and the counts of the response
DangerReset(db, source_id, payload) ==
    With(DangerSubquery(db, source_id, payload.bookmarked_only), LAMBDA ids :
      With([user_meta |-> IF payload.reset_user_meta
                          THEN Cardinality(MetaTargets(db, source_id, ids)) ELSE 0,
            user_notes |-> IF payload.reset_user_notes
                           THEN Cardinality(UserNoteTargets(db, source_id, ids)) ELSE 0,
            cached_notes |-> IF payload.reset_cached_notes
                             THEN Cardinality(CachedNoteTargets(db, source_id, ids)) ELSE 0],
           LAMBDA counts :
        IF ~payload.apply
        THEN [sq |-> db, status |-> 200, apply |-> FALSE, counts |-> counts]
        ELSE IF ~Confirmed(payload)
        THEN [sq |-> db, status |-> 400, apply |-> FALSE, counts |-> counts]
        ELSE IF ~(payload.reset_user_meta \/ payload.reset_user_notes
                  \/ payload.reset_cached_notes)
        THEN [sq |-> db, status |-> 400, apply |-> FALSE, counts |-> counts]
        ELSE [sq |-> [db EXCEPT
                        !.user_meta = IF payload.reset_user_meta
                                      THEN @ \ MetaTargets(db, source_id, ids) ELSE @,
                        !.video_notes =
                           (@ \ (IF payload.reset_user_notes
                                 THEN UserNoteTargets(db, source_id, ids) ELSE {}))
                              \ (IF payload.reset_cached_notes
                                 THEN CachedNoteTargets(db, source_id, ids) ELSE {})],
              status |-> 200, apply |-> TRUE, counts |-> counts]))

InitDanger ==
    /\ settings = [mode |-> "SQLITE", prefix |-> SxPrefix, guard |-> TRUE,
                   profile_index |-> 1, default_source |-> DefaultSourceId]
    /\ now = 0
    /\ sq = SeededStore
    /\ pg = FreshPg
    /\ last = [op |-> "construct", sid |-> << >>, payload |-> << >>, status |-> 0,
               apply |-> FALSE, counts |-> << >>, before |-> SeededStore]
    /\ procs = [p \in Procs |-> IdleProc]

\* POST /danger/reset with X-SX-Source-ID: source_id
DangerResetCall(source_id, payload) ==
    /\ \E r \in { DangerReset(sq, source_id, payload) } :
         /\ sq' = r.sq
         /\ last' = [op |-> "danger_reset", sid |-> source_id, payload |-> payload,
                     status |-> r.status, apply |-> r.apply, counts |-> r.counts,
                     before |-> sq]
    /\ UNCHANGED << settings, now, pg, procs >>

NextDanger ==
    \E source_id \in { SrcA1, SrcA2 }, payload \in DangerPayloads :
      DangerResetCall(source_id, payload)

SpecDanger == InitDanger /\ [][NextDanger]_vars

(***************************************************************************)
(* The terminal UI: Navigator (tui/navigator.py) and the loop of           *)
(* Router.run (tui/router.py).  The process holds the navigation stack.    *)
(***************************************************************************)
\* the deepest stack explored
MaxDepth == 3
MainMenu == << "m","a","i","n","_","m","e","n","u" >>
SourcesMenu == << "s","o","u","r","c","e","s","_","m","e","n","u" >>
SourcesAdd == << "s","o","u","r","c","e","s","_","a","d","d" >>
\* a screen id no screen function is registered for
UnknownScreen == << "n","o","p","e" >>
\* SCREENS, the registry of screen functions
RegisteredScreens == { MainMenu, SourcesMenu, SourcesAdd }
ExitCmd == << "e","x","i","t" >>
HomeCmd == << "h","o","m","e" >>
BackCmd == << "b","a","c","k" >>
BackAliases == { << "b","a","c","k" >>,
                 << "←"," ","b","a","c","k" >>,
                 << "<"," ","b","a","c","k" >>,
                 << "g","o"," ","b","a","c","k" >>,
                 << "p","r","e","v","i","o","u","s" >>,
                 << "p","r","e","v" >>,
                 << "b" >> }
HomeAliases == { << "h","o","m","e" >>, << "m","a","i","n" >>, << "m","a","i","n"," ","m","e","n","u" >>, << "h" >> }
\* what a screen function can return to the loop
ScreenResults ==
    { NoneStr, << >>, << " " >>, ExitCmd, HomeCmd, BackCmd, << "B" >>, << " ","H","o","m","e"," " >>, << "E","X","I","T" >>,
      MainMenu, SourcesMenu, SourcesAdd, UnknownScreen }

\* Navigator.push(screen)
NavigatorPush(stack, screen) == Append(stack, screen)

\* pop without the depth test
PopUnguarded(stack) ==
    [stack |-> SubSeq(stack, 1, Len(stack) - 1), ret |-> stack[Len(stack)]]

\* Navigator.pop(): the stack it leaves and the value it returns
NavigatorPop(stack) ==
    IF Len(stack) > 1
    THEN [stack |-> SubSeq(stack, 1, Len(stack) - 1), ret |-> stack[Len(stack)]]
    ELSE [stack |-> stack, ret |-> NoneStr]

\* Navigator.home()
NavigatorHome(stack) == << MainMenu >>

\* Router._normalize_nav_result(result)
_normalize_nav_result(result) ==
    IF result = NoneStr THEN NoneStr
    ELSE IF Strip(Lower(result)) = << >> THEN NoneStr
    ELSE IF Strip(Lower(result)) \in BackAliases THEN BackCmd
    ELSE IF Strip(Lower(result)) \in HomeAliases THEN HomeCmd
    ELSE result

\* one pass of the loop of Router.run on a registered current screen whose
\* function returned result
RouterDispatch(stack, result) ==
    With(_normalize_nav_result(result), LAMBDA r :
      IF r = ExitCmd THEN [stack |-> stack, running |-> FALSE]
      ELSE IF r = HomeCmd THEN [stack |-> NavigatorHome(stack), running |-> TRUE]
      ELSE IF r = BackCmd
           THEN [stack |-> IF Len(stack) > 1 THEN NavigatorPop(stack).stack
                           ELSE NavigatorHome(stack),
                 running |-> TRUE]
      ELSE IF r # NoneStr /\ r # << >> /\ r # stack[Len(stack)]
           THEN [stack |-> NavigatorPush(stack, r), running |-> TRUE]
      ELSE [stack |-> stack, running |-> TRUE])

\* Navigator(): the stack is ["main_menu"]; the loop has not exited
InitNav ==
    /\ settings = [mode |-> "SQLITE", prefix |-> SxPrefix, guard |-> TRUE,
                   profile_index |-> 1, default_source |-> DefaultSourceId]
    /\ now = 0
    /\ sq = [sources |-> {}, videos |-> {}]
    /\ pg = FreshPg
    /\ last = [op |-> "construct", arg |-> NoneStr, ret |-> NoneStr, before |-> << MainMenu >>]
    /\ procs = [stack |-> << MainMenu >>, running |-> TRUE]

NavCall(op, arg, ret, stack, running) ==
    /\ procs' = [stack |-> stack, running |-> running]
    /\ last' = [op |-> op, arg |-> arg, ret |-> ret, before |-> procs.stack]
    /\ UNCHANGED << settings, now, sq, pg >>

NavPush(screen) ==
    /\ Len(procs.stack) < MaxDepth
    /\ NavCall("push", screen, NoneStr, NavigatorPush(procs.stack, screen), procs.running)

NavPop ==
    NavCall("pop", NoneStr, NavigatorPop(procs.stack).ret, NavigatorPop(procs.stack).stack,
            procs.running)

NavHome ==
    NavCall("home", NoneStr, NoneStr, NavigatorHome(procs.stack), procs.running)

\* one pass of the loop: an unregistered current screen resets to home;
\* Ctrl+C inside the screen function resets to home; else the result of
\* the screen function is dispatched
RouterStep(result, interrupted) ==
    /\ procs.running
    /\ Len(procs.stack) < MaxDepth \/ _normalize_nav_result(result) \in { ExitCmd, HomeCmd, BackCmd, NoneStr }
    /\ IF procs.stack[Len(procs.stack)] \notin RegisteredScreens \/ interrupted
       THEN NavCall("run", result, NoneStr, NavigatorHome(procs.stack), TRUE)
       ELSE NavCall("run", result, NoneStr, RouterDispatch(procs.stack, result).stack,
                    RouterDispatch(procs.stack, result).running)

NextNav ==
    \/ \E screen \in RegisteredScreens \cup { UnknownScreen } : NavPush(screen)
    \/ NavPop
    \/ NavHome
    \/ \E result \in ScreenResults, interrupted \in BOOLEAN : RouterStep(result, interrupted)

SpecNav == InitNav /\ [][NextNav]_vars

(***************************************************************************)
(* Cached and user-owned notes (video_notes).  A row is keyed by           *)
(* (source_id, video_id) and holds markdown and template_version.          *)
(***************************************************************************)
\* values of TEMPLATE_VERSION across releases of the renderer
TemplateVersions == { "v1", "v2" }
\* markdown a user pushes
UserMarkdowns == { "edited-1", "edited-2" }
\* render_note(video, resolver) under template version tv
RenderNote(tv) == << "rendered", tv >>
\* the items of the store
NoteItems == { << SrcA1, IdX >>, << SrcA1, IdY >>, << SrcA2, IdX >> }

NoteRow(source_id, video_id, markdown, template_version) ==
    [source_id |-> source_id, video_id |-> video_id, markdown |-> markdown,
     template_version |-> template_version]

\* SELECT markdown, template_version FROM video_notes WHERE video_id=? AND source_id=?
_get_cached_note(notes, item_id, source_id) ==
    { n \in notes : n.video_id = item_id /\ n.source_id = source_id }

\* INSERT INTO video_notes(..) VALUES(..) ON CONFLICT(source_id, video_id) DO UPDATE SET
\*   markdown, template_version, updated_at
UpsertNote(notes, row) ==
    { n \in notes : ~(n.source_id = row.source_id /\ n.video_id = row.video_id) }
    \cup { row }

\* _render_and_cache_note: a note rendered with a link-group override or
\* for media that is not on disk is returned but not stored
_render_and_cache_note(notes, item_id, source_id, tv, override, media_present) ==
    IF override \/ ~media_present THEN notes
    ELSE UpsertNote(notes, NoteRow(source_id, item_id, RenderNote(tv), tv))

\* GET /items/{item_id}/note: the notes it leaves and whether the response
\* carries the stored markdown (cached) or a rendering
get_item_note(notes, item_id, source_id, tv, force, override, media_present) ==
    With(_get_cached_note(notes, item_id, source_id), LAMBDA cached :
      IF cached # {} /\ (CHOOSE n \in cached : TRUE).template_version = "user" /\ ~force
      THEN [notes |-> notes, status |-> 200, cached |-> TRUE]
      ELSE IF cached # {} /\ ~force /\ ~override
              /\ (CHOOSE n \in cached : TRUE).template_version = tv
      THEN [notes |-> notes, status |-> 200, cached |-> TRUE]
      ELSE IF << source_id, item_id >> \notin NoteItems
      THEN [notes |-> notes, status |-> 404, cached |-> FALSE]
      ELSE [notes |-> _render_and_cache_note(notes, item_id, source_id, tv, override,
                                             media_present),
            status |-> 200, cached |-> FALSE])

\* PUT /items/{item_id}/note-md with payload.markdown and
\* payload.template_version ("" when the payload names none)
put_item_note_md(notes, item_id, source_id, markdown, template_version) ==
    IF << source_id, item_id >> \notin NoteItems
    THEN [notes |-> notes, status |-> 404, cached |-> FALSE]
    ELSE IF markdown = "" THEN [notes |-> notes, status |-> 400, cached |-> FALSE]
    ELSE [notes |-> UpsertNote(notes,
                      NoteRow(source_id, item_id, markdown,
                              IF template_version = "" THEN "user" ELSE template_version)),
          status |-> 200, cached |-> FALSE]

\* sx_db refresh-notes --source source_id: every item of the source is
\* rendered and upserted
refresh_notes(notes, source_id, tv) ==
    { n \in notes : n.source_id # source_id }
    \cup { NoteRow(source_id, k[2], RenderNote(tv), tv) :
           k \in { i \in NoteItems : i[1] = source_id } }

InitNotes ==
    /\ settings = [mode |-> "SQLITE", prefix |-> SxPrefix, guard |-> TRUE,
                   profile_index |-> 1, default_source |-> DefaultSourceId,
                   template_version |-> "v1"]
    /\ now = 0
    /\ sq = [sources |-> {}, videos |-> {}, video_notes |-> {}]
    /\ pg = FreshPg
    /\ last = [op |-> "construct", source_id |-> << >>, item_id |-> << >>, force |-> FALSE,
               status |-> 0, cached |-> FALSE, before |-> {}]
    /\ procs = [p \in Procs |-> IdleProc]

NotesCall(op, source_id, item_id, force, r) ==
    /\ sq' = [sq EXCEPT !.video_notes = r.notes]
    /\ last' = [op |-> op, source_id |-> source_id, item_id |-> item_id, force |-> force,
                status |-> r.status, cached |-> r.cached, before |-> sq.video_notes]
    /\ UNCHANGED << settings, now, pg, procs >>

GetItemNote(source_id, item_id, force, override, media_present) ==
    NotesCall("get_item_note", source_id, item_id, force,
              get_item_note(sq.video_notes, item_id, source_id, settings.template_version,
                            force, override, media_present))

PutItemNoteMd(source_id, item_id, markdown, template_version) ==
    NotesCall("put_item_note_md", source_id, item_id, FALSE,
              put_item_note_md(sq.video_notes, item_id, source_id, markdown,
                               template_version))

RefreshNotes(source_id) ==
    NotesCall("refresh_notes", source_id, << >>, FALSE,
              [notes |-> refresh_notes(sq.video_notes, source_id, settings.template_version),
               status |-> 0, cached |-> FALSE])

\* a release with another TEMPLATE_VERSION is deployed
TemplateChange(tv) ==
    /\ tv # settings.template_version
    /\ settings' = [settings EXCEPT !.template_version = tv]
    /\ last' = [op |-> "template_change", source_id |-> << >>, item_id |-> << >>,
                force |-> FALSE, status |-> 0, cached |-> FALSE,
                before |-> sq.video_notes]
    /\ UNCHANGED << now, sq, pg, procs >>

\* note reads, user pushes and template changes
NextReads ==
    \/ \E k \in NoteItems, force \in BOOLEAN, override \in BOOLEAN, media \in BOOLEAN :
         GetItemNote(k[1], k[2], force, override, media)
    \/ \E k \in NoteItems, md \in UserMarkdowns \cup { "" }, tv \in { "", "v1" } :
         PutItemNoteMd(k[1], k[2], md, tv)
    \/ \E tv \in TemplateVersions : TemplateChange(tv)

\* the same, and refresh-notes runs
NextNotes ==
    \/ NextReads
    \/ \E source_id \in { SrcA1, SrcA2 } : RefreshNotes(source_id)

SpecNotes == InitNotes /\ [][NextNotes]_vars

(***************************************************************************)
(* SpecEnsure: init_schema and get_health of the embedded store, among     *)
(* the calls that register, disable and fill sources.                      *)
(***************************************************************************)
\* SqliteRepository.get_health(source_id)
SqliteGetHealth(db, source_id, t) ==
    SqOutcome([db EXCEPT !.sources = ensure_source(@, Sid(source_id), Sid(source_id), t)],
              "", {})

\* a call that goes through ensure_source only; before is the store it ran on
EnsureCall(op, raw, r) ==
    /\ sq' = r.sq
    /\ last' = [op |-> op, backend |-> "sqlite", raw |-> raw, sid |-> Sid(raw),
                ok |-> r.ok, err |-> r.err, before |-> sq]
    /\ UNCHANGED << settings, pg, procs >>

SqEnsureInitSchema(raw) ==
    /\ IsSqlite
    /\ \E t \in Clock :
         /\ now' = t
         /\ \E r \in { SqliteInitSchema(sq, raw, t) } : EnsureCall("init_schema", raw, r)

SqGetHealth(raw) ==
    /\ IsSqlite
    /\ \E t \in Clock :
         /\ now' = t
         /\ \E r \in { SqliteGetHealth(sq, raw, t) } : EnsureCall("get_health", raw, r)

InitEnsure == InitWith({ st \in DefaultSettings : st.mode = "SQLITE" })

NextEnsure ==
    \/ \E raw \in SourceIds, make_default \in BOOLEAN : SqCreateSource(raw, make_default)
    \/ \E raw \in SourceIds, enabled \in PatchValues : SqPatchSource(raw, enabled)
    \/ \E raw \in SourceIds, payload \in SourcePayloads : SqWriteItem(raw, payload)
    \/ \E raw \in SourceIds : SqEnsureInitSchema(raw)
    \/ \E raw \in SourceIds : SqGetHealth(raw)

SpecEnsure == InitEnsure /\ [][NextEnsure]_vars

(***************************************************************************)
(* What a caller reads back                                                *)
(***************************************************************************)
\* get_item(raw, item_id) called on the databases sqdb / pgdb at time t:
\* the error it raises ("" when it returns) and the rows it returns
GetItemIn(sqdb, pgdb, t, raw, item_id) ==
    IF IsSqlite
    THEN With(SqliteGetItem(sqdb, raw, item_id), LAMBDA r :
           [err |-> r.err, rows |-> r.rows])
    ELSE With(PostgresGetItem(pgdb, raw, item_id, t), LAMBDA r :
           [err |-> r.err, rows |-> r.rows])

\* list_items(raw) called on the databases sqdb / pgdb at time t
ListItemsIn(sqdb, pgdb, t, raw) ==
    IF IsSqlite
    THEN With(SqliteListItems(sqdb, raw), LAMBDA r : [err |-> r.err, rows |-> r.rows])
    ELSE With(PostgresListItems(pgdb, raw, t), LAMBDA r : [err |-> r.err, rows |-> r.rows])

\* the same calls in the current state
GetItemResult(raw, item_id) == GetItemIn(sq, pg, now, raw, item_id)
ListItemsResult(raw) == ListItemsIn(sq, pg, now, raw)

(***************************************************************************)
(* C1  Cross-tenant isolation on both backends.  Every write_item step     *)
(* that returns leaves get_item of the written (source, id) returning      *)
(* exactly the written row; it leaves get_item of every other (source, id) *)
(* that a write can have stored, and list_items of every source with a     *)
(* different normalized id, as they were; and list_items of a source only  *)
(* ever returns rows of that source.                                       *)
(***************************************************************************)
WrittenId == PayloadItemId(last.payload)

\* the item ids a write_item call can store
WritableIds == { PayloadItemId(p) : p \in Payloads } \ { << >> }

\* after the write_item call recorded in call, on the databases it left
C1_Written(call, sqdb, pgdb, t) ==
    /\ call.ok =>
         GetItemIn(sqdb, pgdb, t, call.raw, PayloadItemId(call.payload)) =
           [err |-> "",
            rows |-> { ItemRow(call.sid, PayloadItemId(call.payload), call.payload, t) }]
    /\ \A s \in ItemSourceIds :
         \A r \in ListItemsIn(sqdb, pgdb, t, s).rows : r.source_id = Sid(s)

\* across the write_item step recorded in call
C1_Frame(call, sqdb, pgdb, t) ==
    /\ \A s \in ItemSourceIds, i \in WritableIds :
         (Sid(s) # call.sid \/ i # PayloadItemId(call.payload)) =>
            GetItemIn(sqdb, pgdb, t, s, i) = GetItemResult(s, i)
    /\ \A s \in ItemSourceIds :
         Sid(s) # call.sid => ListItemsIn(sqdb, pgdb, t, s) = ListItemsResult(s)

C1_Isolation ==
    [][last'.op = "write_item" =>
         /\ C1_Written(last', sq', pg', now')
         /\ C1_Frame(last', sq', pg', now')]_vars

\* a write under a_2 has just reused the item id that a_1 holds on the
\* relational backend, and the two tenants read different rows back
C1_Witness ==
    /\ IsPostgres
    /\ last.op = "write_item" /\ last.ok /\ last.sid = SrcA2 /\ WrittenId = IdX
    /\ GetItemResult(SrcA1, IdX).rows # {}
    /\ GetItemResult(SrcA2, IdX).rows # {}
    /\ \A r1 \in GetItemResult(SrcA1, IdX).rows, r2 \in GetItemResult(SrcA2, IdX).rows :
         r1.source_id = SrcA1 /\ r2.source_id = SrcA2 /\ r1.caption # r2.caption


(***************************************************************************)
(* C2  Registry bijection.  In every reachable state of the relational     *)
(* backend each source_id has at most one registry row and no two          *)
(* source_ids are mapped to the same schema_name.                          *)
(***************************************************************************)
C2_RegistryBijection ==
    \A r1, r2 \in pg.registry :
        (r1.source_id = r2.source_id \/ r1.schema_name = r2.schema_name) => r1 = r2

\* the last call executed a statement of that kind
Executed(kind) == \E i \in DOMAIN last.stmts : last.stmts[i].kind = kind

\* two tenants are registered, the second through a legacy remap that returned
C2_Witness ==
    /\ Cardinality(pg.registry) = 2
    /\ last.ok /\ Executed("registry_update")
    /\ \E r \in pg.registry : r.source_id = last.sid /\ r.schema_name = last.schema


(***************************************************************************)
(* C3  Race-safe first-time provisioning.  When two processes have run     *)
(* resolve(s, create_if_missing=true) concurrently for a tenant that was   *)
(* not registered, both calls returned without error and with the same     *)
(* schema name, the registry holds exactly one row for s, and every schema *)
(* object (each of the two foreign keys included) was created once.        *)
(***************************************************************************)
\* both calls are over
RaceDone == \A p \in Procs : procs[p].pc = "done"

\* the run began without a mapping for the tenant (no statement drops a
\* schema, so the legacy schema marks the runs that began with one)
RaceFirstTime == SharedSchema \notin DOMAIN pg.schemas

C3_RaceSafe ==
    (RaceFirstTime /\ RaceDone) =>
        /\ \A p \in Procs : procs[p].err = ""
        /\ \A p, q \in Procs : procs[p].schema = procs[q].schema
        /\ Cardinality(RegistrySelect(pg.registry, Sid(RaceSource))) = 1
        /\ \A i \in DOMAIN DDLStatements :
             Cardinality({ p \in Procs : DDLStatements[i] \in procs[p].created }) = 1

\* both calls are over and both returned: the interleavings in which one
\* process committed its DDL before the other began its own
C3_SerialWitness ==
    /\ RaceFirstTime /\ RaceDone
    /\ \A p \in Procs : procs[p].err = "" /\ procs[p].schema = procs[p].canonical


(***************************************************************************)
(* C4  Resolution idempotence.  When resolve(s, create_if_missing=true)    *)
(* has returned and is called again for the same source, the second call   *)
(* returns the same schema name, executes no registry insert or update,    *)
(* and leaves the registry as it was.                                      *)
(***************************************************************************)
\* the call recorded in call is resolve(s, create_if_missing=true), directly
\* or through init_schema
IsResolveCreate(call) ==
    call.op \in { "resolve_schema", "init_schema" } /\ call.create

\* the call recorded in call executed a registry INSERT or UPDATE
WroteRegistry(call) ==
    \E i \in DOMAIN call.stmts :
        call.stmts[i].kind \in { "registry_insert", "registry_update" }

\* last and last' are two calls in a row for the same source
TwiceInARow ==
    IsResolveCreate(last) /\ IsResolveCreate(last') /\ last'.sid = last.sid

C4_Idempotent ==
    [][(TwiceInARow /\ last.ok) =>
          /\ last'.ok /\ last'.schema = last.schema
          /\ ~WroteRegistry(last')
          /\ pg'.registry = pg.registry]_vars

\* the statement without the condition that the first call returned
C4_Unconditional ==
    [][TwiceInARow =>
          /\ last.ok /\ last'.ok /\ last'.schema = last.schema
          /\ ~WroteRegistry(last')
          /\ pg'.registry = pg.registry]_vars

\* the only registry row was inserted by an earlier call of this run at
\* time MaxNow, and the last call, resolve(s, true) again, returned its
\* schema name without writing the registry
C4_Witness ==
    /\ IsResolveCreate(last) /\ last.ok /\ ~WroteRegistry(last)
    /\ pg.registry = { [source_id |-> last.sid, schema_name |-> last.schema,
                        created_at |-> MaxNow, updated_at |-> MaxNow] }


(***************************************************************************)
(* C5  resolve(s, create_if_missing=false) is read-only.  With a mapping   *)
(* it returns the stored schema name as it is, or, with the guard enabled, *)
(* fails with SchemaIndexMismatch; without a mapping it fails with         *)
(* SchemaNotMapped.  It never changes the registry, the Source rows or the *)
(* tenant schemas.                                                         *)
(***************************************************************************)
IsResolveOnly(call) == call.op = "resolve_schema" /\ ~call.create

\* the schema names the registry stores for the source of the call
StoredNames(call) ==
    { r.schema_name : r \in { x \in pg.registry : x.source_id = call.sid } }

C5_ReadOnlyFrame ==
    /\ pg'.registry = pg.registry
    /\ pg'.sources = pg.sources
    /\ pg'.schemas = pg.schemas

C5_ReadOnly ==
    [][IsResolveOnly(last') =>
          /\ C5_ReadOnlyFrame
          /\ StoredNames(last') = {} => last'.err = "SchemaNotMapped"
          /\ StoredNames(last') # {} =>
                \/ last'.ok /\ StoredNames(last') = { last'.schema }
                \/ last'.err = "SchemaIndexMismatch" /\ settings.guard]_vars

\* the statement as claimed: with a mapping the call always returns
C5_AlwaysReturnsStored ==
    [][IsResolveOnly(last') =>
          /\ C5_ReadOnlyFrame
          /\ StoredNames(last') = {} => last'.err = "SchemaNotMapped"
          /\ StoredNames(last') # {} =>
                last'.ok /\ StoredNames(last') = { last'.schema }]_vars

\* a mapping to a legacy schema whose layout fails the structural probe has
\* just been returned as it is
C5_Witness ==
    /\ IsResolveOnly(last) /\ last.ok /\ last.schema = SharedSchema
    /\ StoredNames(last) = { SharedSchema }
    /\ ~_schema_has_required_layout(pg.schemas, SharedSchema)


(***************************************************************************)
(* C6  First-time provisioning succeeds.  For a source that has no         *)
(* registry mapping, whatever else is registered,                          *)
(* resolve(source_id, create_if_missing=true) returns the canonical        *)
(* derived name, and afterwards the registry maps the source to that name, *)
(* a Source row for the source exists and the tenant schema's tables       *)
(* exist.                                                                  *)
(***************************************************************************)
\* the tables _create_schema_objects creates
TenantTables ==
    { DDLStatements[i].name :
        i \in { j \in DOMAIN DDLStatements : DDLStatements[j].kind = "table" } }

\* what the claim promises after the call recorded in last
C6_Provisioned ==
    /\ last.ok
    /\ last.schema = CanonicalUnder(settings.prefix, last.sid)
    /\ { r.schema_name : r \in { x \in pg.registry : x.source_id = last.sid } }
         = { last.schema }
    /\ \E r \in pg.sources : r.id = last.sid
    /\ last.schema \in DOMAIN pg.schemas
    /\ TenantTables \subseteq pg.schemas[last.schema].tables

C6_UnmappedCreateSucceeds ==
    [][(IsResolveCreate(last') /\ StoredNames(last') = {}) => C6_Provisioned']_vars

\* a_1 is registered under sx_a_1 and the call for a-1, which has no
\* mapping and derives the same name, has just raised
C6_CollisionWitness ==
    /\ IsResolveCreate(last) /\ last.sid = SrcA1Dash /\ ~last.ok
    /\ StoredNames(last) = {}
    /\ \E r \in pg.registry : r.source_id = SrcA1 /\ r.schema_name = CanonicalUnder(settings.prefix, SrcA1Dash)


(***************************************************************************)
(* C7  Legacy remap never repairs in place.  Whenever                      *)
(* resolve(s, create_if_missing=true) finds a mapping whose schema fails   *)
(* the structural probe, it rewrites the mapping to the canonical derived  *)
(* name, and no DDL statement is executed against the schema that failed   *)
(* the probe, which stays as it was.                                       *)
(***************************************************************************)
\* the call recorded in call executed DDL against the schema
RanDDLAgainst(call, schema) ==
    \E i \in DOMAIN call.stmts :
        call.stmts[i].kind = "ddl" /\ call.stmts[i].target = schema

\* the mapping the call found fails the probe
FoundFailingMapping(call) ==
    /\ IsResolveCreate(call)
    /\ \E n \in StoredNames(call) : ~_schema_has_required_layout(pg.schemas, n)

C7_NeverRepairsInPlace ==
    [][FoundFailingMapping(last') =>
         \A n \in StoredNames(last') :
            /\ WroteRegistry(last')
            /\ ~RanDDLAgainst(last', n)
            /\ pg'.schemas[n] = pg.schemas[n]]_vars

\* the mapping of a_2 to the shared legacy schema was rewritten to the
\* canonical name and the objects were created there
C7_RemapWitness ==
    /\ IsResolveCreate(last) /\ last.ok /\ last.sid = SrcA2
    /\ SharedSchema \in DOMAIN pg.schemas
    /\ WroteRegistry(last) /\ ~RanDDLAgainst(last, SharedSchema)
    /\ StoredNames(last) = { CanonicalUnder(settings.prefix, SrcA2) }
    /\ pg.schemas[SharedSchema] = ForeignLayout
    /\ pg.schemas[last.schema] = ProvisionedLayout


(***************************************************************************)
(* C8  Profile-index guard.  With the guard enabled, whenever the trailing *)
(* number of the source id and the pNN token of the resolved schema name   *)
(* both parse and differ, resolve_schema (with either value of             *)
(* create_if_missing), init_schema and connection_for_source fail with     *)
(* SchemaIndexMismatch and return neither a schema name nor a connection.  *)
(***************************************************************************)
\* both indexes parse and they are different numbers
IndexesDisagree(sid, schema) ==
    /\ _extract_trailing_profile_index(sid) # NoIndex
    /\ _extract_schema_profile_index(schema) # NoIndex
    /\ _extract_trailing_profile_index(sid) # _extract_schema_profile_index(schema)

\* the last call resolved the schema of its source and the two disagree
ResolvedDisagreeing ==
    /\ last.op \in { "resolve_schema", "init_schema", "connection_for_source" }
    /\ last.schema # << >>
    /\ IndexesDisagree(last.sid, last.schema)

C8_GuardRejects ==
    (settings.guard /\ ResolvedDisagreeing) =>
        /\ last.err = "SchemaIndexMismatch" /\ ~last.ok
        /\ last.search_path = << >>

\* the statement as claimed, whatever SX_SCHEMA_INDEX_GUARD is
C8_AlwaysRejects ==
    ResolvedDisagreeing =>
        /\ last.err = "SchemaIndexMismatch" /\ ~last.ok
        /\ last.search_path = << >>

\* connection_for_source has just been refused for a registered tenant
\* whose schema name carries another profile's token
C8_Witness ==
    /\ settings.guard /\ ResolvedDisagreeing
    /\ last.op = "connection_for_source"
    /\ last.err = "SchemaIndexMismatch"
    /\ last.schema \in StoredNames(last)


(***************************************************************************)
(* C9  Every connection that connection_for_source(s) returns has its      *)
(* search order set to exactly [the schema registered for the normalized   *)
(* s, public], so an unqualified videos names the table of that schema and *)
(* of no other tenant; no connection is returned for a tenant without a    *)
(* registry mapping.                                                       *)
(***************************************************************************)
C9_SearchPath ==
    last.op = "connection_for_source" =>
        /\ last.ok =>
             /\ StoredNames(last) = { last.schema }
             /\ last.search_path = << last.schema, PublicSchema >>
             /\ ResolveVideos(pg.schemas, last.search_path) \subseteq { last.schema }
        /\ ~last.ok => last.search_path = << >>
        /\ StoredNames(last) = {} => ~last.ok /\ last.err = "SchemaNotMapped"

\* two tenants are registered and the connection just returned for one of
\* them names its own videos table
C9_Witness ==
    /\ last.op = "connection_for_source" /\ last.ok
    /\ Cardinality(pg.registry) = 2
    /\ last.search_path = << CanonicalUnder(settings.prefix, last.sid), PublicSchema >>
    /\ ResolveVideos(pg.schemas, last.search_path) = { last.schema }


(***************************************************************************)
(* C10  On both backends write_item with a payload whose id is missing,    *)
(* empty or only whitespace fails with an error and leaves every stored    *)
(* item of every source unchanged.                                         *)
(***************************************************************************)
\* the payload has no id, an empty one, or one of whitespace only
LacksId(payload) ==
    \/ payload.id = NoneStr
    \/ \A k \in DOMAIN payload.id : IsSpace(payload.id[k])

\* the items stored in a tenant schema of the relational database db
StoredRows(db) == [n \in DOMAIN db.schemas |-> db.schemas[n].rows]

C10_RejectsMissingId ==
    [][(last'.op = "write_item" /\ LacksId(last'.payload)) =>
          /\ ~last'.ok /\ last'.err = "ValueError"
          /\ sq'.videos = sq.videos
          /\ StoredRows(pg') = StoredRows(pg)]_vars

\* a write with a whitespace-only id has just been refused on the
\* relational backend while items of a tenant are stored
C10_Witness ==
    /\ IsPostgres /\ last.op = "write_item" /\ ~last.ok
    /\ last.payload.id = << " ", " " >>
    /\ \E n \in DOMAIN pg.schemas : pg.schemas[n].rows # {}

(***************************************************************************)
(* C11  Single default source.  A step of app start or list_sources that   *)
(* returns leaves exactly one Source with is_default=1, and no step of     *)
(* create (with or without make_default), activate, patch, delete,         *)
(* init_schema or list_sources takes the source registry from              *)
(* exactly one such row to any other number.                               *)
(***************************************************************************)
SourceRowsIn(sqdb, pgdb) == IF IsSqlite THEN sqdb.sources ELSE pgdb.sources

OneDefaultIn(sqdb, pgdb) == Cardinality(DefaultRows(SourceRowsIn(sqdb, pgdb))) = 1

C11_SingleDefault ==
    [][/\ (last'.op \in { "app_start", "list_sources" } /\ last'.ok)
            => OneDefaultIn(sq', pg')
       /\ OneDefaultIn(sq, pg) => OneDefaultIn(sq', pg')]_vars

\* the default has just been moved from the configured default source to
\* a_2, and both rows are there
C11_Witness ==
    /\ last.op \in { "activate_source", "create_source" } /\ last.ok /\ last.sid = SrcA2
    /\ \E r \in SourceRowsIn(sq, pg) : r.id = ConfiguredDefault /\ r.is_default = 0
    /\ DefaultRows(SourceRowsIn(sq, pg)) # {}
    /\ \A r \in DefaultRows(SourceRowsIn(sq, pg)) : r.id = SrcA2

(***************************************************************************)
(* C12  Deleting a Source.  A delete_source step whose Source is the       *)
(* default or owns at least one item is refused and leaves the source      *)
(* registry, the schema registry and the item data as they were; a step    *)
(* that removes a Source row removes one that was not the default and      *)
(* owned no item.                                                          *)
(***************************************************************************)
ItemOwnersIn(sqdb, pgdb) ==
    IF IsSqlite THEN { v.source_id : v \in sqdb.videos }
    ELSE UNION { { v.source_id : v \in pgdb.schemas[n].rows } : n \in DOMAIN pgdb.schemas }

IsDefaultSource(sid) == \E r \in SourceRowsIn(sq, pg) : r.id = sid /\ r.is_default = 1

C12_DeleteRefused ==
    [][last'.op = "delete_source" =>
         /\ (IsDefaultSource(last'.sid) \/ last'.sid \in ItemOwnersIn(sq, pg))
               => (~last'.ok /\ sq' = sq /\ pg' = pg)
         /\ SourceRowsIn(sq', pg') # SourceRowsIn(sq, pg)
               => (~IsDefaultSource(last'.sid) /\ last'.sid \notin ItemOwnersIn(sq, pg))]_vars

\* delete_source has returned for a_2 on the relational backend and removed
\* its Source row, while a tenant schema still holds an item of a_2
C12_DeletedOwner ==
    /\ IsPostgres
    /\ last.op = "delete_source" /\ last.ok /\ last.sid = SrcA2
    /\ SrcA2 \in ItemOwnersIn(sq, pg)
    /\ ~(\E r \in pg.sources : r.id = SrcA2)

(***************************************************************************)
(* C13  A Source is created on first write or registration.  In every      *)
(* reachable state of either backend every source id that owns a stored    *)
(* item has a Source row.                                                  *)
(***************************************************************************)
C13_OwnersRegistered ==
    \A s \in ItemOwnersIn(sq, pg) : \E r \in SourceRowsIn(sq, pg) : r.id = s

\* write_item has returned for a_2 on the embedded store, the item is
\* stored, and the source registry has no row for a_2
C13_UnregisteredOwner ==
    /\ IsSqlite
    /\ last.op = "write_item" /\ last.ok /\ last.sid = SrcA2
    /\ \E v \in sq.videos : v.source_id = SrcA2
    /\ ~(\E r \in sq.sources : r.id = SrcA2)

(***************************************************************************)
(* C14  Single trust boundary.  Every statement sent to the relational     *)
(* server with an identifier interpolated into its text carries a name     *)
(* that the safe-identifier grammar accepts.                               *)
(***************************************************************************)
\* the statements whose text is built with an interpolated name
InterpolatingKinds ==
    { "ddl", "set_search_path", "count_videos", "drop_schema", "create_schema" }

C14_InterpolatedNamesChecked ==
    \A i \in DOMAIN last.stmts :
        last.stmts[i].kind \in InterpolatingKinds => MatchesSafeIdent(last.stmts[i].target)

\* the import wizard has created a schema whose name the grammar rejects
C14_UncheckedName ==
    /\ last.op = "_ensure_schema" /\ last.ok
    /\ last.arg \in DOMAIN pg.schemas
    /\ ~MatchesSafeIdent(last.arg)
    /\ \E i \in DOMAIN last.stmts :
         last.stmts[i].kind = "create_schema" /\ last.stmts[i].target = last.arg

(***************************************************************************)
(* C15  safe_ident accepts exactly the strings that match                  *)
(* ^[A-Za-z_][A-Za-z0-9_]*$ and returns an accepted string unchanged;      *)
(* every other input raises.                                               *)
(***************************************************************************)
C15_SafeIdentExact ==
    last.op = "safe_ident" =>
        /\ last.ok <=> MatchesSafeIdent(OrEmpty(last.arg))
        /\ last.ok => last.out = last.arg

\* safe_ident has returned a string that is not the one it was given
C15_TrimmedAccepted ==
    /\ last.op = "safe_ident" /\ last.ok
    /\ ~MatchesSafeIdent(last.arg)
    /\ last.out # last.arg
    /\ last.out = Strip(last.arg)

(***************************************************************************)
(* C16  sanitize_source_id equals the reference procedure: strip the       *)
(* input; if blank take the fallback; drop every character outside         *)
(* [A-Za-z0-9._-]; if the result is empty take the fallback again.  Stated *)
(* for fallbacks that are themselves normalized ids.                       *)
(***************************************************************************)
RefNormalize(raw, fallback) ==
    With(IF Strip(OrEmpty(raw)) = << >> THEN fallback ELSE Strip(OrEmpty(raw)), LAMBDA s :
      IF FilterChars(s, SourceIdChars) = << >> THEN fallback
      ELSE FilterChars(s, SourceIdChars))

NormalizedFallback ==
    /\ settings.default_source \notin { NoneStr, << >> }
    /\ FilterChars(settings.default_source, SourceIdChars) = settings.default_source

C16_MatchesReference ==
    (last.op = "sanitize_source_id" /\ NormalizedFallback)
        => last.out = RefNormalize(last.arg, settings.default_source)

\* sanitize_source_id(";", "a_1") has returned the literal "default"
C16_LiteralDefault ==
    /\ last.op = "sanitize_source_id"
    /\ settings.default_source = SrcA1
    /\ last.arg = << ";" >>
    /\ last.out = DefaultStr

(***************************************************************************)
(* C17  Normalization is idempotent: sanitize_source_id applied to its own *)
(* result, with the same fallback, returns that result.                    *)
(***************************************************************************)
C17_Idempotent ==
    last.op = "sanitize_source_id" =>
        sanitize_source_id(last.out, settings.default_source) = last.out

\* an input that normalization changes: characters were dropped from it
C17_Witness ==
    /\ last.op = "sanitize_source_id"
    /\ last.arg # NoneStr
    /\ Len(last.out) >= 1 /\ Len(last.out) < Len(Strip(last.arg))
    /\ sanitize_source_id(last.out, settings.default_source) = last.out

(***************************************************************************)
(* C18  schema_name_for_source rejects injection payloads: for a source id *)
(* that carries ";" it raises and returns no schema name.                  *)
(***************************************************************************)
CarriesInjection(v) == v # NoneStr /\ \E i \in DOMAIN v : v[i] = ";"

C18_InjectionRejected ==
    (last.op = "schema_name_for_source" /\ CarriesInjection(last.arg))
        => (~last.ok /\ last.out = << >>)

\* schema_name_for_source("assets_1;DROP_SCHEMA") has returned a name
C18_InjectionAccepted ==
    /\ last.op = "schema_name_for_source"
    /\ last.arg = InjectionId
    /\ last.ok
    /\ last.out = SxPrefix \o << "_" >> \o FilterChars(InjectionId, SourceIdChars)

(***************************************************************************)
(* C19  Placeholder rewriting.  For a statement whose placeholders are     *)
(* positional "?" and that is run with a parameter sequence, or whose      *)
(* placeholders are named ":name" and that is run with a mapping, the      *)
(* statement handed to the driver is the statement with exactly its        *)
(* placeholders replaced by %s or %(name)s, in order, every other piece of *)
(* the text as it was, and the parameters are the ones given.  A           *)
(* placeholder is what the embedded store reads as one: a "?" or ":name"   *)
(* outside a string literal.                                               *)
(***************************************************************************)
\* the statement with the placeholders outside string literals replaced,
\* read from position i; inLit says whether i is inside a literal
RECURSIVE RefRewrite(_, _, _, _)
RefRewrite(s, i, inLit, kind) ==
    IF i > Len(s) THEN << >>
    ELSE IF s[i] = "'" THEN << "'" >> \o RefRewrite(s, i + 1, ~inLit, kind)
    ELSE IF inLit THEN << s[i] >> \o RefRewrite(s, i + 1, inLit, kind)
    ELSE IF kind = "seq" /\ s[i] = "?" THEN << "%s" >> \o RefRewrite(s, i + 1, inLit, kind)
    ELSE IF kind = "map" /\ s[i] = ":" /\ i < Len(s) /\ IsNameStart(s[i + 1])
         THEN << "%(" >> \o SubSeq(s, i + 1, NameEnd(s, i + 1) - 1) \o << ")s" >>
              \o RefRewrite(s, NameEnd(s, i + 1), inLit, kind)
    ELSE << s[i] >> \o RefRewrite(s, i + 1, inLit, kind)

\* position i of s lies inside a string literal (or is one of its quotes)
InLiteral(s, i) ==
    s[i] = "'" \/ Cardinality({ j \in 1..(i - 1) : s[j] = "'" }) % 2 = 1

\* the positions of the placeholders of s
PlaceholdersAt(s, kind) ==
    { i \in 1..Len(s) : /\ ~InLiteral(s, i)
                        /\ s[i] = (IF kind = "seq" THEN "?" ELSE ":") }

\* s is a statement of the claim for parameters of this kind: its literals
\* are closed, and outside them every "?" or ":" is a placeholder of the
\* kind the parameters serve: a lone "?" for a sequence, ":" followed by a
\* name of the mapping for a mapping
ClaimStatement(s, p) ==
    /\ Cardinality({ j \in 1..Len(s) : s[j] = "'" }) % 2 = 0
    /\ \A i \in 1..Len(s) :
         ~InLiteral(s, i) =>
           /\ p.kind = "seq" => s[i] # ":" /\ (s[i] = "?" => (i = Len(s) \/ ~IsNameChar(s[i + 1])))
           /\ p.kind = "map" => s[i] # "?"
                                /\ (s[i] = ":" => /\ i < Len(s)
                                                  /\ SubSeq(s, i + 1, NameEnd(s, i + 1) - 1) = p.names)
    /\ p.kind = "seq" => Cardinality(PlaceholdersAt(s, "seq")) = Len(p.vals)

C19_ExactRewrite ==
    (/\ last.op \in { "execute", "executemany" }
     /\ last.batch # << >>
     /\ ClaimStatement(last.sql, last.batch[1])
     /\ ~(last.op = "execute" /\ InSql(SqliteMaster, last.sql) /\ InSql(VideosFts, last.sql)))
    => last.sent = [i \in 1..Len(last.batch) |->
                      Sent(RefRewrite(last.sql, 1, FALSE, last.batch[1].kind),
                           last.batch[i])]

\* a statement with one positional placeholder and a "?" inside a string
\* literal was executed with one value, and the literal reached the driver
\* rewritten
C19_LiteralRewritten ==
    /\ last.op = "execute"
    /\ ClaimStatement(last.sql, last.batch[1])
    /\ last.batch[1].kind = "seq"
    /\ Len(last.batch[1].vals) = 1
    /\ \E i \in 1..Len(last.sql) : InLiteral(last.sql, i) /\ last.sql[i] = "?"
    /\ Len(last.sent) = 1
    /\ last.sent[1].params = last.batch[1]
    /\ last.sent[1].sql # RefRewrite(last.sql, 1, FALSE, "seq")

(***************************************************************************)
(* C20  Catalog-probe short-circuit.  A statement that probes the          *)
(* embedded store's catalog (sqlite_master) for the full-text index        *)
(* (videos_fts), run through execute of the wrapper, returns a cursor      *)
(* whose fetchone is None and whose fetchall is empty, raises nothing and  *)
(* hands no statement to the driver.                                       *)
(***************************************************************************)
\* the probe of has_fts / rebuild_fts:
\* SELECT name FROM sqlite_master WHERE type='table' AND name='videos_fts'
ProbesFtsCatalog(sql) ==
    \E i, j \in 1..Len(sql) : sql[i] = SqliteMaster /\ sql[j] = VideosFts

C20_ProbeShortCircuit ==
    (last.op = "execute" /\ ProbesFtsCatalog(last.sql))
    => /\ last.cursor.one = NoneStr
       /\ last.cursor.many = << >>
       /\ last.cursor.err = ""
       /\ last.sent = << >>

\* the probe was executed and answered by the wrapper itself
C20_Witness ==
    /\ last.op = "execute"
    /\ last.sql = << SqliteMaster, "'", VideosFts, "'" >>
    /\ last.cursor.kind = "fake"
    /\ last.cursor.many = << >>
    /\ last.sent = << >>

(***************************************************************************)
(* C21  Shim round-trip.  Once a row with id x has been inserted through   *)
(* the wrapper, "SELECT v FROM t WHERE id=?" executed with (x,) through    *)
(* the wrapper raises nothing and yields exactly one row; row[0] and       *)
(* row["v"] both give the value stored for x, through fetchone and through *)
(* fetchall.                                                               *)
(***************************************************************************)
\* the value stored for id in table t
StoredV(id) == (CHOOSE r \in pg.t : r.id = id).v

C21_RoundTrip ==
    (last.op = "select" /\ \E r \in pg.t : r.id = last.id)
    => /\ last.err = ""
       /\ Len(last.all) = 1
       /\ RowByIndex(last.all[1], 0) = [ok |-> TRUE, v |-> StoredV(last.id)]
       /\ RowByName(last.all[1], "v") = [ok |-> TRUE, v |-> StoredV(last.id)]
       /\ last.one = << last.all[1] >>
       /\ last.rowcount = 1

\* x and another id are stored and x was read back as one row
C21_Witness ==
    /\ last.op = "select"
    /\ last.id = "x"
    /\ \E r \in pg.t : r.id = "x"
    /\ \E r \in pg.t : r.id # "x"
    /\ Len(last.all) = 1
    /\ RowByName(last.all[1], "v").ok

(***************************************************************************)
(* C22  Every cursor returned by execute or executemany of the wrapper,    *)
(* the one returned for the catalog probe included, offers fetchone,       *)
(* fetchall and rowcount.                                                  *)
(***************************************************************************)
C22_CursorContract ==
    last.op \in { "execute", "executemany" }
    => { "fetchone", "fetchall", "rowcount" } \subseteq CursorMembers(last.cursor)

\* the probe was executed and its cursor has no rowcount
C22_NoRowcount ==
    /\ last.op = "execute"
    /\ InSql(SqliteMaster, last.sql) /\ InSql(VideosFts, last.sql)
    /\ last.cursor.kind = "fake"
    /\ "rowcount" \notin CursorMembers(last.cursor)

(***************************************************************************)
(* C23  In relational-primary mode a request whose tenant cannot be        *)
(* resolved (no mapping, schema-index mismatch, invalid identifier, no     *)
(* DSN) is answered with a 4xx response whose body has ok=false and names  *)
(* the source id, on every endpoint, schema bootstrap included; it is      *)
(* never a 500.                                                            *)
(***************************************************************************)
C23_TenantErrorIs4xx ==
    (last.op \in { "health", "get_item", "bootstrap_schema" }
     /\ last.resp.err \in TenantErrors)
    => /\ last.resp.status \in 400..499
       /\ ~last.resp.ok
       /\ last.resp.names # << >>

\* a schema bootstrap got past the middleware, failed the schema-index
\* guard in its handler and was answered with 500
C23_Bootstrap500 ==
    /\ last.op = "bootstrap_schema"
    /\ last.by = "handler"
    /\ last.resp.err = "SchemaIndexMismatch"
    /\ last.resp.status = 500

(***************************************************************************)
(* C24  Concurrent requests stay tenant-scoped.  Under every interleaving  *)
(* of the steps of two requests, a request that has been answered got the  *)
(* item of its own source: 200 with exactly the row stored under its       *)
(* (source, id) in the schema the registry names for its source, or 404    *)
(* when its source holds no such item.                                     *)
(***************************************************************************)
\* the rows stored under (source of hdr, item) in that source's schema
OwnRows(hdr, item) ==
    SelectItem(pg.schemas[(CHOOSE r \in pg.registry : r.source_id = Sid(hdr)).schema_name].rows,
               Sid(hdr), item)

C24_OwnItem ==
    \A p \in Procs :
      procs[p].pc \in { "responded", "closed" }
      => IF OwnRows(procs[p].hdr, procs[p].item) = {}
         THEN procs[p].resp.status = 404
         ELSE /\ procs[p].resp.status = 200
              /\ procs[p].resp.rows = OwnRows(procs[p].hdr, procs[p].item)

\* a request for a_1 and a request for a_2, both for item x and both past
\* their middleware before either was closed, were answered with different
\* rows
C24_Witness ==
    /\ procs[1].hdr = SrcA1 /\ procs[2].hdr = SrcA2
    /\ procs[1].item = IdX /\ procs[2].item = IdX
    /\ procs[1].pc = "responded" /\ procs[2].pc = "responded"
    /\ procs[1].resp.status = 200 /\ procs[2].resp.status = 200
    /\ procs[1].resp.rows # procs[2].resp.rows

(***************************************************************************)
(* C25  Danger-zone reset deletes nothing unless apply is true and confirm *)
(* equals "RESET": after a dry run, and after an apply whose confirm is    *)
(* any other string, every user_meta and video_notes row of every source   *)
(* is as it was before the request.                                        *)
(***************************************************************************)
C25_NoDeleteUnconfirmed ==
    (last.op = "danger_reset"
     /\ ~(last.payload.apply /\ last.payload.confirm = ResetWord))
    => /\ sq.user_meta = last.before.user_meta
       /\ sq.video_notes = last.before.video_notes

\* an apply whose confirm is not the string RESET was answered 200 and
\* deleted user_meta rows
C25_DeletedUnconfirmed ==
    /\ last.op = "danger_reset"
    /\ last.payload.apply
    /\ last.payload.confirm # ResetWord
    /\ last.status = 200
    /\ sq.user_meta # last.before.user_meta

(***************************************************************************)
(* C26  Navigation stack invariant.  After any sequence of push, pop and   *)
(* home on a Navigator, and of passes of the Router loop, the stack is     *)
(* non-empty and its bottom element is "main_menu"; pop at depth 1 returns *)
(* None and leaves the stack as it was; home leaves the stack equal to     *)
(* ["main_menu"].                                                          *)
(***************************************************************************)
C26_StackInvariant ==
    /\ Len(procs.stack) >= 1
    /\ procs.stack[1] = MainMenu
    /\ (last.op = "pop" /\ Len(last.before) = 1)
       => (last.ret = NoneStr /\ procs.stack = last.before)
    /\ (last.op = "pop" /\ Len(last.before) > 1)
       => (last.ret = last.before[Len(last.before)]
           /\ procs.stack = SubSeq(last.before, 1, Len(last.before) - 1))
    /\ last.op = "home" => procs.stack = << MainMenu >>

\* pop was called at depth 1 and returned None
C26_Witness ==
    /\ last.op = "pop"
    /\ last.before = << MainMenu >>
    /\ last.ret = NoneStr
    /\ procs.stack = << MainMenu >>

(***************************************************************************)
(* C27  User-owned notes are preserved.  A note stored with                *)
(* template_version 'user' keeps its markdown across every operation       *)
(* except a note read of that item with force=true and a push to that      *)
(* item: a read without force (with or without a link-group override), a   *)
(* template-version change and a refresh-notes run leave it as it was.     *)
(***************************************************************************)
\* the operation changed the note row n is allowed to change
ExplicitChangeOf(n) ==
    /\ last.source_id = n.source_id
    /\ last.item_id = n.video_id
    /\ \/ last.op = "get_item_note" /\ last.force
       \/ last.op = "put_item_note_md"

C27_UserNotesKept ==
    \A n \in last.before :
      (n.template_version = "user" /\ ~ExplicitChangeOf(n)) => n \in sq.video_notes

\* a refresh-notes run replaced the markdown of a note a user had pushed
C27_RefreshOverwrote ==
    /\ last.op = "refresh_notes"
    /\ \E n \in last.before :
         /\ n.template_version = "user"
         /\ n.source_id = last.source_id
         /\ \E m \in sq.video_notes :
              /\ m.source_id = n.source_id /\ m.video_id = n.video_id
              /\ m.markdown # n.markdown

(***************************************************************************)
(* C28  A resolve_schema(s, create_if_missing=True) call that fails with   *)
(* SchemaIndexMismatch leaves the schema registry, the source registry and *)
(* the set of provisioned tenant schemas exactly as they were before the   *)
(* call.                                                                   *)
(***************************************************************************)
\* the step is a creating resolve that the index guard failed
FailedCreatingResolve(l) ==
    /\ l.op \in { "resolve_schema", "init_schema" }
    /\ l.create
    /\ l.err = "SchemaIndexMismatch"

C28_FailedResolveChangesNothing ==
    [][ FailedCreatingResolve(last') =>
          /\ pg'.registry = pg.registry
          /\ pg'.sources = pg.sources
          /\ DOMAIN pg'.schemas = DOMAIN pg.schemas ]_vars

\* a creating resolve failed the guard after it had inserted the mapping of
\* its source: the row is in the registry and its schema is provisioned
C28_FailedAfterInsert ==
    /\ FailedCreatingResolve(last)
    /\ \E r \in pg.registry :
         /\ r.source_id = last.sid
         /\ r.schema_name \in DOMAIN pg.schemas
         /\ \E i \in DOMAIN last.stmts : last.stmts[i] = Stmt("registry_insert", r.schema_name)

(***************************************************************************)
(* C29  Whenever connection_for_source(s) returns a connection, also       *)
(* while another process is part-way through its first init_schema(s),     *)
(* the schema the registry names for s exists and holds a videos table,    *)
(* so an unqualified videos on that connection names the table of that     *)
(* schema and not one further down the search path.                        *)
(***************************************************************************)
ConnectionReturned == last.op = "connection_for_source" /\ last.ok

C29_ConnectedSchemaExists ==
    ConnectionReturned =>
      /\ last.schema \in DOMAIN pg.schemas
      /\ ResolveVideos(pg.schemas, last.search_path) = { last.schema }

\* a connection was returned for a schema that does not exist while a
\* process is between the commit of the mapping and the commit of the DDL
C29_ConnectedBeforeDDL ==
    /\ ConnectionReturned
    /\ last.schema \notin DOMAIN pg.schemas
    /\ last.search_path = << last.schema, PublicSchema >>
    /\ \E p \in Procs : procs[p].pc = "ddl" /\ procs[p].target = last.schema

(***************************************************************************)
(* C30  On the embedded store init_schema(s) and get_health(s) only make   *)
(* sure a Source row for s exists: a row that already exists keeps its     *)
(* label, kind, description, enabled flag and is_default, every other      *)
(* Source row is unchanged, and no item changes.                           *)
(***************************************************************************)
IsEnsureCall == last.op \in { "init_schema", "get_health" } /\ "before" \in DOMAIN last

\* r2 is r apart from the time stamp of its last update
SameSource(r, r2) ==
    /\ r2.id = r.id /\ r2.label = r.label /\ r2.kind = r.kind
    /\ r2.description = r.description /\ r2.enabled = r.enabled
    /\ r2.is_default = r.is_default

C30_EnsureKeepsRows ==
    IsEnsureCall =>
      /\ \A r \in last.before.sources :
           IF r.id = last.sid THEN \E r2 \in sq.sources : SameSource(r, r2)
           ELSE r \in sq.sources
      /\ \A r2 \in sq.sources :
           r2.id = last.sid \/ r2 \in last.before.sources
      /\ sq.videos = last.before.videos

\* init_schema or get_health ran for a source that was disabled and the
\* source is enabled afterwards
C30_Reenabled ==
    /\ IsEnsureCall
    /\ \E r \in last.before.sources :
         /\ r.id = last.sid /\ r.enabled = 0
         /\ \E r2 \in sq.sources : r2.id = r.id /\ r2.enabled = 1

====
